---- MODULE Spec2Model ----
(***************************************************************************)
(* A model of tokio-mini-redis: the RESP codec (resp.rs, parse.rs), the    *)
(* command model (commands/), the database with its watch registry         *)
(* (database.rs) and the per-connection reader/writer tasks (server.rs,    *)
(* connection.rs).                                                         *)
(*                                                                         *)
(* Bytes are one-character strings; a String or a byte vector is a         *)
(* sequence of them.  A few message texts are kept as multi-character      *)
(* chunks ("Error: "), which stand for bytes that are neither CR, LF, a    *)
(* digit nor a marker.                                                     *)
(***************************************************************************)
EXTENDS Integers, Sequences, FiniteSets, TLC

VARIABLES
    rt,      \* a Type on its round trip: [phase, t, bytes, back]
    feed,    \* the parser fed byte by byte: [buf, res, inc]
    rc,      \* a Command on its round trip: [phase, c, frame, back]
    tc,      \* a TypeConsumer and the calls made on it: [t, inner, n, to, r]
    cl,      \* RedisClient::watch: [pc, wire, open, replied, got, watcher, r]
    data,           \* Database.inner: key -> None or Some(Value)
    subscriptions,  \* Database.subscriptions: key -> the list of OperationSubscription
    rpc,            \* per connection, where the reader task of process is
    rreg,           \* per connection, the locals of the reader task
    chan,           \* per connection, the frames in the mpsc channel of process
    wpc,            \* per connection, where the writer task of process is
    wreg,           \* per connection, the frame the writer task is writing
    sock,           \* per connection, the frames written to the socket so far
    tasks,          \* the tasks spawned by invoke_subscribers that have not finished
    arrived,        \* per connection, the number of frames the reader received
    left,           \* the number of frames the clients have yet to send
    nset,           \* the number of sets so far: the next one's place in data-lock order
    lastSet,        \* key -> the value of the latest set in data-lock order, if any
    locks,          \* the two mutexes of Database: None, or Some(the thread holding the guard)
    th              \* per thread, where it is in the method of Database it called

pure == <<rt, feed, rc, tc, cl>>
sys  == <<data, subscriptions, rpc, rreg, chan, wpc, wreg, sock, tasks, arrived, left, nset,
          lastSet>>
lck  == <<locks, th>>
vars == <<rt, feed, rc, tc, cl, data, subscriptions, rpc, rreg, chan, wpc, wreg, sock, tasks,
          arrived, left, nset, lastSet, locks, th>>

(***************************************************************************)
(* resp.rs: the RESP data type.                                            *)
(***************************************************************************)
SimpleString(s) == [t |-> "SimpleString", v |-> s]
Error(s)        == [t |-> "Error", v |-> s]
Integer(i)      == [t |-> "Integer", v |-> i]
Null            == [t |-> "Null"]
BulkString(b)   == [t |-> "BulkString", v |-> b]
Array(a)        == [t |-> "Array", v |-> a]

CR == "\r"
LF == "\n"
Digits == <<"0", "1", "2", "3", "4", "5", "6", "7", "8", "9">>
IsDigit(b) == \E d \in 1..10 : Digits[d] = b
DigitVal(b) == (CHOOSE d \in 1..10 : Digits[d] = b) - 1

\* i64::to_string / usize::to_string: decimal digits, '-' first when negative.
RECURSIVE NatToString(_)
NatToString(n) ==
    IF n < 10 THEN <<Digits[n + 1]>>
    ELSE NatToString(n \div 10) \o <<Digits[(n % 10) + 1]>>

to_string(i) == IF i < 0 THEN <<"-">> \o NatToString(0 - i) ELSE NatToString(i)

cr_lf(result) == result \o <<CR, LF>>

simple_string(s) == cr_lf(<<"+">> \o s)
error(s)         == cr_lf(<<"-">> \o s)
integer(i)       == cr_lf(<<":">> \o to_string(i))
null             == <<"$", "-", "1", CR, LF>>
\* A bulk string written without the CRLF after its payload.
bulk_string_open(i) == cr_lf(<<"$">> \o to_string(Len(i))) \o i
bulk_string(i)   == cr_lf(cr_lf(<<"$">> \o to_string(Len(i))) \o i)

RECURSIVE into_bytes(_)
RECURSIVE array_elems(_)
array_elems(l) == IF l = <<>> THEN <<>> ELSE into_bytes(Head(l)) \o array_elems(Tail(l))

array(l) == cr_lf(<<"*">> \o to_string(Len(l))) \o array_elems(l)

into_bytes(t) ==
    CASE t.t = "SimpleString" -> simple_string(t.v)
      [] t.t = "Error"        -> error(t.v)
      [] t.t = "Integer"      -> integer(t.v)
      [] t.t = "Null"         -> null
      [] t.t = "BulkString"   -> bulk_string(t.v)
      [] t.t = "Array"        -> array(t.v)

(***************************************************************************)
(* parse.rs: the parser.  A cursor is the byte sequence and a 0-based      *)
(* position; every operation returns its result and the new position.      *)
(***************************************************************************)
Ok(v)  == [ok |-> TRUE, v |-> v]
Err(e) == [ok |-> FALSE, e |-> e]

Incomplete           == [k |-> "Incomplete"]
EndOfBytes           == [k |-> "EndOfBytes"]
InvalidMarker(b)     == [k |-> "InvalidMarker", a |-> b]
InvalidEncoding      == [k |-> "InvalidEncoding"]
InvalidByteLength(n) == [k |-> "InvalidByteLength", a |-> n]

\* bytes::Buf::remaining for a Cursor: nothing once the position is at or past the end.
remaining(bytes, pos) == IF pos >= Len(bytes) THEN 0 ELSE Len(bytes) - pos

Slice(bytes, from, to) == [i \in 1..(to - from) |-> bytes[from + i]]

\* atoi::atoi::<i64>: an optional sign, then as many digits as there are;
\* None when no byte was used.
RECURSIVE DigitRun(_, _)
DigitRun(text, i) ==
    IF i <= Len(text) /\ IsDigit(text[i]) THEN DigitRun(text, i + 1) ELSE i

RECURSIVE DigitsValue(_, _, _)
DigitsValue(text, i, j) ==
    IF i >= j THEN 0 ELSE DigitsValue(text, i, j - 1) * 10 + DigitVal(text[j - 1])

atoi(text) ==
    LET signed == text # <<>> /\ text[1] \in {"+", "-"}
        first  == IF signed THEN 2 ELSE 1
        used   == DigitRun(text, first)
        n      == DigitsValue(text, first, used)
    IN  IF used = 1 THEN [some |-> FALSE]
        ELSE [some |-> TRUE, v |-> IF signed /\ text[1] = "-" THEN 0 - n ELSE n]

get_line(bytes, pos) ==
    LET start == pos
        end   == Len(bytes) - 1
        found == {i \in start..(end - 1) : bytes[i + 1] = CR /\ bytes[i + 2] = LF}
    IN  IF found = {} THEN [r |-> Err(Incomplete), pos |-> pos]
        ELSE LET i == CHOOSE x \in found : \A y \in found : x <= y
             IN  [r |-> Ok(Slice(bytes, start, i)), pos |-> i + 2]

\* get_bytes leaving the CRLF after the payload unread.
get_bytes_without_crlf(bytes, pos, number_of_bytes) ==
    IF remaining(bytes, pos) < number_of_bytes
    THEN [r |-> Err(Incomplete), pos |-> pos]
    ELSE [r   |-> Ok(Slice(bytes, pos, pos + number_of_bytes)),
          pos |-> pos + number_of_bytes]

get_bytes(bytes, pos, number_of_bytes) ==
    IF remaining(bytes, pos) < number_of_bytes
    THEN [r |-> Err(Incomplete), pos |-> pos]
    ELSE [r   |-> Ok(Slice(bytes, pos, pos + number_of_bytes)),
          pos |-> IF remaining(bytes, pos) >= 2 THEN pos + number_of_bytes + 2 ELSE pos]

parse_string(bytes)      == Ok(SimpleString(bytes))
parse_error(bytes)       == Ok(Error(bytes))
parse_integer(bytes)     ==
    LET i == atoi(bytes) IN IF i.some THEN Ok(Integer(i.v)) ELSE Err(InvalidEncoding)
parse_bulk_string(bytes) == Ok(BulkString(bytes))
parse_array(types)       == Ok(Array(types))

RECURSIVE parse_next(_, _)
RECURSIVE parse_elements(_, _, _, _)

\* The loop passing a sub-frame's error on as it is.
parse_elements_verbatim(bytes, pos, n, types_array) ==
    IF n <= 0 THEN [r |-> parse_array(types_array), pos |-> pos]
    ELSE LET sub == parse_next(bytes, pos)
         IN  IF sub.r.ok
             THEN parse_elements(bytes, sub.pos, n - 1, Append(types_array, sub.r.v))
             ELSE [r |-> sub.r, pos |-> sub.pos]

\* The loop returning the sub-frames it has when the bytes run out.
parse_elements_partial(bytes, pos, n, types_array) ==
    IF n <= 0 THEN [r |-> parse_array(types_array), pos |-> pos]
    ELSE LET sub == parse_next(bytes, pos)
         IN  IF sub.r.ok
             THEN parse_elements(bytes, sub.pos, n - 1, Append(types_array, sub.r.v))
             ELSE IF sub.r.e \in {EndOfBytes, Incomplete}
                  THEN [r |-> parse_array(types_array), pos |-> sub.pos]
                  ELSE [r |-> sub.r, pos |-> sub.pos]

\* The array branch's loop (parse.rs 128-141): sub-frame by sub-frame, EndOfBytes
\* and Incomplete of a sub-frame both become Incomplete.
parse_elements(bytes, pos, n, types_array) ==
    IF n <= 0 THEN [r |-> parse_array(types_array), pos |-> pos]
    ELSE LET sub == parse_next(bytes, pos)
         IN  IF sub.r.ok
             THEN parse_elements(bytes, sub.pos, n - 1, Append(types_array, sub.r.v))
             ELSE IF sub.r.e \in {EndOfBytes, Incomplete}
                  THEN [r |-> Err(Incomplete), pos |-> sub.pos]
                  ELSE [r |-> sub.r, pos |-> sub.pos]

\* The bulk branch taking every negative length for the length of Null.
parse_bulk_negative(bytes, pos) ==
    LET number == get_line(bytes, pos)
    IN  IF ~number.r.ok THEN number
        ELSE LET number_of_bytes == atoi(number.r.v)
             IN  IF ~number_of_bytes.some
                 THEN [r |-> Err(InvalidEncoding), pos |-> number.pos]
                 ELSE IF number_of_bytes.v < 0
                 THEN [r |-> Ok(Null), pos |-> number.pos]
                 ELSE LET line == get_bytes(bytes, number.pos, number_of_bytes.v)
                      IN  IF line.r.ok
                          THEN [r |-> parse_bulk_string(line.r.v), pos |-> line.pos]
                          ELSE line

parse_bulk(bytes, pos) ==
    LET number == get_line(bytes, pos)
    IN  IF ~number.r.ok THEN number
        ELSE LET number_of_bytes == atoi(number.r.v)
             IN  IF ~number_of_bytes.some
                 THEN [r |-> Err(InvalidEncoding), pos |-> number.pos]
                 ELSE IF number_of_bytes.v < 0
                 THEN [r   |-> IF number_of_bytes.v = -1 THEN Ok(Null)
                               ELSE Err(InvalidByteLength(number_of_bytes.v)),
                       pos |-> number.pos]
                 ELSE LET line == get_bytes(bytes, number.pos, number_of_bytes.v)
                      IN  IF line.r.ok
                          THEN [r |-> parse_bulk_string(line.r.v), pos |-> line.pos]
                          ELSE line

parse_array_frame(bytes, pos) ==
    LET number == get_line(bytes, pos)
    IN  IF ~number.r.ok THEN number
        ELSE LET number_of_elements == atoi(number.r.v)
             IN  IF ~number_of_elements.some
                 THEN [r |-> Err(InvalidEncoding), pos |-> number.pos]
                 ELSE parse_elements(bytes, number.pos, number_of_elements.v, <<>>)

\* The '+', '-' and ':' branches: a line, then its conversion.
parse_line(bytes, pos, marker) ==
    LET line == get_line(bytes, pos)
    IN  IF ~line.r.ok THEN line
        ELSE [r   |-> CASE marker = "+" -> parse_string(line.r.v)
                        [] marker = "-" -> parse_error(line.r.v)
                        [] marker = ":" -> parse_integer(line.r.v),
              pos |-> line.pos]

parse_next(bytes, pos) ==
    IF remaining(bytes, pos) < 1 THEN [r |-> Err(EndOfBytes), pos |-> pos]
    ELSE LET marker == bytes[pos + 1]
         IN  CASE marker \in {"+", "-", ":"} -> parse_line(bytes, pos + 1, marker)
               [] marker = "$" -> parse_bulk(bytes, pos + 1)
               [] marker = "*" -> parse_array_frame(bytes, pos + 1)
               [] OTHER        -> [r |-> Err(InvalidMarker(marker)), pos |-> pos + 1]

\* Parse::parse_next on a fresh cursor over the bytes.
parse(bytes) == parse_next(bytes, 0).r
(***************************************************************************)
(* resp.rs: TypeConsumer.  The consumer is its field inner: None, or the   *)
(* Type that is left.  Every call returns its result and the new inner.    *)
(***************************************************************************)
None    == [some |-> FALSE]
Some(v) == [some |-> TRUE, v |-> v]

Empty == [k |-> "Empty"]
ConversionFailed(from, to) == [k |-> "ConversionFailed", from |-> from, to |-> to]
cannot_convert_err(from, to) == ConversionFailed(from, to)

\* String::from_utf8: the byte 0xFF never occurs in UTF-8.
NotUtf8 == "0xFF"
from_utf8(b) ==
    IF \E i \in 1..Len(b) : b[i] = NotUtf8 THEN Err("FromUtf8Error") ELSE Ok(b)

next_bytes(value) ==
    CASE value.t = "SimpleString" -> Ok(value.v)
      [] value.t = "BulkString"   -> Ok(value.v)
      [] OTHER                    -> Err(cannot_convert_err(value, "Bytes"))

next_integer(value) ==
    CASE value.t \in {"SimpleString", "BulkString"} ->
             LET i == atoi(value.v)
             IN  IF i.some THEN Ok(i.v) ELSE Err(cannot_convert_err(value, "Integer"))
      [] value.t = "Integer" -> Ok(value.v)
      [] OTHER               -> Err(cannot_convert_err(value, "Integer"))

next_string(value) ==
    CASE value.t = "SimpleString" -> Ok(value.v)
      [] value.t = "Integer"      -> Ok(to_string(value.v))
      [] value.t = "BulkString"   ->
             IF from_utf8(value.v).ok THEN Ok(value.v)
             ELSE Err(cannot_convert_err(value, "String"))
      [] OTHER                    -> Err(cannot_convert_err(value, "String"))

extractor(to, value) ==
    CASE to = "String"  -> next_string(value)
      [] to = "Integer" -> next_integer(value)
      [] to = "Bytes"   -> next_bytes(value)

TypeConsumer_new(t) == Some(t)

next_token_from_values(values, to) ==
    IF values # <<>> THEN extractor(to, Head(values)) ELSE Err(Empty)

\* A consumer that keeps a value whose conversion failed.
next_token_keeping(inner, to) ==
    IF ~inner.some THEN [r |-> Err(Empty), inner |-> inner]
    ELSE IF inner.v.t = "Array"
    THEN [r     |-> next_token_from_values(inner.v.v, to),
          inner |-> IF inner.v.v # <<>> /\ next_token_from_values(inner.v.v, to).ok
                    THEN Some(Array(Tail(inner.v.v))) ELSE inner]
    ELSE [r     |-> extractor(to, inner.v),
          inner |-> IF extractor(to, inner.v).ok THEN None ELSE inner]

next_token(inner, to) ==
    IF ~inner.some THEN [r |-> Err(Empty), inner |-> inner]
    ELSE IF inner.v.t = "Array"
    THEN [r     |-> next_token_from_values(inner.v.v, to),
          inner |-> IF inner.v.v # <<>> THEN Some(Array(Tail(inner.v.v))) ELSE inner]
    ELSE [r |-> extractor(to, inner.v), inner |-> None]

\* The consumer as the decoders of commands/ call it: next_string and
\* next_integer return Ok(None) once the consumer is exhausted.
next_optional(inner, to) ==
    LET n == next_token(inner, to)
    IN  [r     |-> IF n.r.ok THEN Ok(Some(n.r.v))
                   ELSE IF n.r.e = Empty THEN Ok(None) ELSE n.r,
         inner |-> n.inner]

\* next_type: the next element as it is, with no conversion; Ok(None) once the
\* consumer is exhausted.
next_type(inner) ==
    IF ~inner.some THEN [r |-> Ok(None), inner |-> inner]
    ELSE IF inner.v.t = "Array"
    THEN IF inner.v.v = <<>> THEN [r |-> Ok(None), inner |-> inner]
         ELSE [r |-> Ok(Some(Head(inner.v.v))), inner |-> Some(Array(Tail(inner.v.v)))]
    ELSE [r |-> Ok(Some(inner.v)), inner |-> None]

(***************************************************************************)
(* database.rs: Operation.  commands/: the commands, their decoding from   *)
(* a TypeConsumer and their client-side encoding.                          *)
(***************************************************************************)
Operations == {"Addition", "Update", "Removal", "All"}

\* `operation as i64` of the #[repr(u8)] enum.
OperationCode(operation) ==
    CASE operation = "Addition" -> 1
      [] operation = "Update"   -> 2
      [] operation = "Removal"  -> 3
      [] operation = "All"      -> 4

\* The conversion with Removal's arm missing.
Operation_from_without_removal(id) ==
    CASE id = 1 -> "Addition"
      [] id = 2 -> "Update"
      [] OTHER  -> "All"

\* impl From<u8> for Operation
Operation_from(id) ==
    CASE id = 1 -> "Addition"
      [] id = 2 -> "Update"
      [] id = 3 -> "Removal"
      [] OTHER  -> "All"

\* `operation as u8` of an i64: the low eight bits.
as_u8(i) == ((i % 256) + 256) % 256

Get(key)               == [c |-> "Get", key |-> key]
Set(key, value)        == [c |-> "Set", key |-> key, value |-> value]
Push(list_name, values) == [c |-> "Push", list_name |-> list_name, values |-> values]
Watch(key, operation)  == [c |-> "Watch", key |-> key, operation |-> operation]

InvalidFrame(cause, field) == [k |-> "InvalidFrame", cause |-> cause, field |-> field]
MissingField(field)        == [k |-> "MissingField", field |-> field]
UnSupportedCommand         == [k |-> "UnSupportedCommand"]

extract_or_err(input, field) ==
    IF ~input.ok THEN Err(InvalidFrame(input.e, field))
    ELSE IF input.v.some THEN Ok(input.v.v) ELSE Err(MissingField(field))

unwrap_or_err(input, field) ==
    IF input.some THEN Ok(input.v) ELSE Err(MissingField(field))

\* Each decoder returns its result; Command::new drops the consumer afterwards.
Get_from(inner) ==
    LET k == next_optional(inner, "String")
    IN  IF ~k.r.ok THEN Err(InvalidFrame(k.r.e, "key"))
        ELSE LET key == unwrap_or_err(k.r.v, "key")
             IN  IF key.ok THEN Ok(Get(key.v)) ELSE key

\* A Set::from that reports the element it does not find as a missing field.
Set_from_missing(inner) ==
    LET k == next_optional(inner, "String")
    IN  IF ~k.r.ok THEN Err(InvalidFrame(k.r.e, "key"))
        ELSE IF ~k.r.v.some THEN Err(MissingField("key"))
        ELSE LET v == next_optional(k.inner, "String")
             IN  IF ~v.r.ok THEN Err(InvalidFrame(v.r.e, "value"))
                 ELSE IF ~v.r.v.some THEN Err(MissingField("value"))
                 ELSE Ok(Set(k.r.v.v, v.r.v.v))

Set_from(inner) ==
    LET k == next_token(inner, "String")
    IN  IF ~k.r.ok THEN Err(InvalidFrame(k.r.e, "key"))
        ELSE LET v == next_token(k.inner, "String")
             IN  IF ~v.r.ok THEN Err(InvalidFrame(v.r.e, "value"))
                 ELSE Ok(Set(k.r.v, v.r.v))

RECURSIVE Push_values(_, _)
Push_values(inner, values) ==
    LET item == next_optional(inner, "String")
    IN  IF ~item.r.ok THEN Err(InvalidFrame(item.r.e, "Not a String"))
        ELSE IF item.r.v.some THEN Push_values(item.inner, Append(values, item.r.v.v))
        ELSE Ok(values)

Push_from(inner) ==
    LET n == next_optional(inner, "String")
    IN  IF ~n.r.ok THEN Err(InvalidFrame(n.r.e, "Not a String"))
        ELSE LET list_name == unwrap_or_err(n.r.v, "list name")
             IN  IF ~list_name.ok THEN list_name
                 ELSE LET values == Push_values(n.inner, <<>>)
                      IN  IF values.ok THEN Ok(Push(list_name.v, values.v)) ELSE values

Watch_from(inner) ==
    LET k   == next_optional(inner, "String")
        key == extract_or_err(k.r, "key")
    IN  IF ~key.ok THEN key
        ELSE LET o         == next_optional(k.inner, "Integer")
                 operation == extract_or_err(o.r, "operation")
             IN  IF ~operation.ok THEN operation
                 ELSE Ok(Watch(key.v, Operation_from(as_u8(operation.v))))

WatchResult(key, operation, before, after) ==
    [key |-> key, operation |-> operation, before |-> before, after |-> after]

\* impl From<Type> for Result<WatchResult, CommandCreationError>
WatchResult_from(w) ==
    LET k   == next_optional(TypeConsumer_new(w), "String")
        key == extract_or_err(k.r, "key")
    IN  IF ~key.ok THEN key
        ELSE LET o         == next_optional(k.inner, "Integer")
                 operation == extract_or_err(o.r, "operation")
             IN  IF ~operation.ok THEN operation
                 ELSE LET b      == next_type(o.inner)
                          before == IF b.r.ok THEN b.r ELSE Err(InvalidFrame(b.r.e, "before"))
                      IN  IF ~before.ok THEN before
                          ELSE LET after == extract_or_err(next_type(b.inner).r, "after")
                               IN  IF ~after.ok THEN after
                                   ELSE Ok(WatchResult(key.v,
                                                       Operation_from(as_u8(operation.v)),
                                                       before.v, after.v))

Command_new(inner) ==
    LET c       == next_optional(inner, "String")
        command == extract_or_err(c.r, "Command")
    IN  IF ~command.ok THEN command
        ELSE CASE command.v = <<"G", "E", "T">>           -> Get_from(c.inner)
               [] command.v = <<"S", "E", "T">>           -> Set_from(c.inner)
               [] command.v = <<"P", "U", "S", "H">>      -> Push_from(c.inner)
               [] command.v = <<"W", "A", "T", "C", "H">> -> Watch_from(c.inner)
               [] OTHER                                   -> Err(UnSupportedCommand)

\* impl From<Get|Set|Push|Watch> for Type
Get_into(get) == Array(<<BulkString(<<"G", "E", "T">>), BulkString(get.key)>>)

Set_into(set) ==
    Array(<<BulkString(<<"S", "E", "T">>), BulkString(set.key), BulkString(set.value)>>)

Push_into(p) ==
    Array(<<BulkString(<<"P", "U", "S", "H">>), BulkString(p.list_name)>>
            \o [i \in 1..Len(p.values) |-> BulkString(p.values[i])])

Watch_into(watch) ==
    Array(<<BulkString(<<"W", "A", "T", "C", "H">>), BulkString(watch.key),
            Integer(OperationCode(watch.operation))>>)

Command_into(c) ==
    CASE c.c = "Get"   -> Get_into(c)
      [] c.c = "Set"   -> Set_into(c)
      [] c.c = "Push"  -> Push_into(c)
      [] c.c = "Watch" -> Watch_into(c)

(***************************************************************************)
(* database.rs: Value, and the Database: the data map and the subscription *)
(* map, each behind its own Mutex.  A critical section is one step.        *)
(***************************************************************************)
Value_String(s) == [ty |-> "String", s |-> s]
Value_List(l)   == [ty |-> "List", l |-> l]

\* impl From<LinkedList<String>> for Value
Value_from_list(l) == Value_List([i \in 1..Len(l) |-> Value_String(l[i])])

RECURSIVE StringsOf(_)
StringsOf(l) ==
    IF l = <<>> THEN <<>>
    ELSE (IF Head(l).ty = "String" /\ from_utf8(Head(l).s).ok
          THEN <<SimpleString(Head(l).s)>> ELSE <<>>) \o StringsOf(Tail(l))

\* impl From<Value> for Type
Value_into(v) ==
    IF v.ty = "String" THEN SimpleString(v.s) ELSE Array(StringsOf(v.l))

OkReply == SimpleString(<<"O", "k">>)

\* The byte 0x60 of the message of a push on a key that holds a String.
Backtick == "0x60"

get(db, key) ==
    IF db[key].some THEN Value_into(db[key].v) ELSE Null

\* A push that replaces the list instead of extending it.
push_replacing(db, list_name, values) ==
    IF db[list_name].some /\ db[list_name].v.ty # "List"
    THEN [reply |-> Error(<<"key ", Backtick>> \o list_name
                          \o <<Backtick, " exists and it is not a list">>),
          db    |-> db]
    ELSE [reply |-> Integer(Len(values)),
          db    |-> [db EXCEPT ![list_name] = Some(Value_from_list(values))]]

\* A push that turns the String of a key into the list pushed.
push_over_string(db, list_name, values) ==
    IF db[list_name].some /\ db[list_name].v.ty = "List"
    THEN LET list == db[list_name].v.l \o [i \in 1..Len(values) |-> Value_String(values[i])]
         IN  [reply |-> Integer(Len(list)),
              db    |-> [db EXCEPT ![list_name] = Some(Value_List(list))]]
    ELSE [reply |-> Integer(Len(values)),
          db    |-> [db EXCEPT ![list_name] = Some(Value_from_list(values))]]

\* A push that puts each value at the front of the list.
push_front(db, list_name, values) ==
    IF db[list_name].some
    THEN IF db[list_name].v.ty = "List"
         THEN LET list == [i \in 1..Len(values) |-> Value_String(values[Len(values) + 1 - i])]
                            \o db[list_name].v.l
              IN  [reply |-> Integer(Len(list)),
                   db    |-> [db EXCEPT ![list_name] = Some(Value_List(list))]]
         ELSE [reply |-> Error(<<"key ", Backtick>> \o list_name
                               \o <<Backtick, " exists and it is not a list">>),
               db    |-> db]
    ELSE [reply |-> Integer(Len(values)),
          db    |-> [db EXCEPT ![list_name] = Some(Value_from_list(values))]]

\* Database::push under the data lock: the reply and the data map afterwards.
push(db, list_name, values) ==
    IF db[list_name].some
    THEN IF db[list_name].v.ty = "List"
         THEN LET list == db[list_name].v.l \o [i \in 1..Len(values) |-> Value_String(values[i])]
              IN  [reply |-> Integer(Len(list)),
                   db    |-> [db EXCEPT ![list_name] = Some(Value_List(list))]]
         ELSE [reply |-> Error(<<"key ", Backtick>> \o list_name
                               \o <<Backtick, " exists and it is not a list">>),
               db    |-> db]
    ELSE [reply |-> Integer(Len(values)),
          db    |-> [db EXCEPT ![list_name] = Some(Value_from_list(values))]]

\* An insert that keeps the value a key already has.
insert_if_absent(db, k, v) ==
    [before |-> db[k], db |-> IF db[k].some THEN db ELSE [db EXCEPT ![k] = Some(v)]]

\* Database::insert, its critical section (database.rs 227-229): HashMap::insert
\* returns the value it replaced.
insert(db, k, v) ==
    [before |-> db[k], db |-> [db EXCEPT ![k] = Some(v)]]

OperationSubscription(operation, subscriber) ==
    [operation |-> operation, subscriber |-> subscriber]

\* A registration that puts the subscription at the front of the key's list.
subscribe_for_changes_first(subs, key, operation_subscription) ==
    [subs EXCEPT ![key] = <<operation_subscription>> \o @]

subscribe_for_changes(subs, key, operation_subscription) ==
    [subs EXCEPT ![key] = Append(subs[key], operation_subscription)]

\* impl From<WatchResult> for Type
WatchResult_into(w) ==
    Array(<<SimpleString(w.key), Integer(OperationCode(w.operation)),
            IF w.before.some THEN w.before.v ELSE Null, w.after>>)

\* Only the subscriptions for All are notified.
Notified_when_all(list, operation) ==
    {i \in 1..Len(list) : list[i].operation = "All"}

\* The subscriptions whose operation is the event's, or All: the filter as written
\* in the commented-out line.
Notified_by_operation(list, operation) ==
    {i \in 1..Len(list) : list[i].operation \in {operation, "All"}}

\* The subscriptions invoke_subscribers spawns a task for (database.rs 255-258):
\* all of the key's; the filter on the operation is commented out.
Notified(list, operation) == {i \in 1..Len(list) : TRUE}

\* invoke_subscribers calling every event an Update.
invoke_subscribers_as_update(subs, key, before, after, sid) ==
    LET watch_result ==
            [key |-> key, operation |-> "Update",
             before |-> IF before.some THEN Some(Value_into(before.v)) ELSE None,
             after |-> Value_into(after)]
    IN  {[to  |-> subs[key][i].subscriber,
          msg |-> [f |-> WatchResult_into(watch_result), re |-> 0, sid |-> sid, idx |-> i]]
           : i \in Notified(subs[key], "Update")}

\* Database::invoke_subscribers: the tasks it spawns, one per subscription, each
\* holding a clone of the subscription's sender and the event it will send.
invoke_subscribers(subs, key, before, after, sid) ==
    LET operation == IF before.some THEN "Update" ELSE "Addition"
        watch_result ==
            [key |-> key, operation |-> operation,
             before |-> IF before.some THEN Some(Value_into(before.v)) ELSE None,
             after |-> Value_into(after)]
    IN  {[to  |-> subs[key][i].subscriber,
          msg |-> [f |-> WatchResult_into(watch_result), re |-> 0, sid |-> sid, idx |-> i]]
           : i \in Notified(subs[key], operation)}

(***************************************************************************)
(* connection.rs and server.rs: the connections.  Each has a reader task   *)
(* and a writer task around one bounded mpsc channel; the Database is      *)
(* shared.  What a socket read returns is the input of the model.          *)
(***************************************************************************)
BufSize  == 512      \* connection.rs: `let mut buf = [0; 512]`
Capacity == 2        \* of the mpsc channel; 32 in server.rs
MaxCmds  == 3        \* frames sent by all clients together

Conns   == {1, 2}
SysKeys == {<<"k">>, <<"l">>}
SysVals == {<<"v">>, <<"w">>}

\* The operation of the subscriptions: one that no set produces.
SysOps  == {"Removal"}

SysCommands ==
    {Get(<<"k">>)}
      \cup {Set(<<"k">>, v) : v \in SysVals}
      \cup {Push(<<"l">>, <<<<"v">>, <<"w">>>>), Push(<<"k">>, <<<<"v">>>>)}
      \cup {Watch(<<"k">>, o) : o \in SysOps}

\* A frame that parses but is no command: an unknown name.
BadFrames == {Array(<<BulkString(<<"D", "E", "L">>), BulkString(<<"k">>)>>)}

\* Bytes that are no frame: an invalid marker.
BadBytes == {<<"#", "1", CR, LF>>}

ClientBytes == {into_bytes(f) : f \in {Command_into(c) : c \in SysCommands} \cup BadFrames}
                 \cup BadBytes

PeerClosed == <<>>            \* a read of zero bytes

\* A read that returns the first half of a frame's bytes, the rest being still
\* on its way.
SplitReads ==
    {SubSeq(into_bytes(Command_into(c)), 1, Len(into_bytes(Command_into(c))) \div 2)
       : c \in {Get(<<"k">>)}}

\* A read that ends inside the payload of a bulk string: two of the three bytes
\* its header declares.
TruncatedBulks == {<<"$", "3", CR, LF, "D", "E">>}

\* A read that returns two frames the client wrote one after the other without
\* waiting for a reply.
PipelinedReads ==
    {into_bytes(Command_into(Get(<<"k">>))) \o into_bytes(Command_into(Set(<<"k">>, <<"v">>)))}

SocketReads ==
    ClientBytes \cup SplitReads \cup TruncatedBulks \cup PipelinedReads \cup {PeerClosed}

\* The number of complete frames in the bytes from pos on.
RECURSIVE FramesFrom(_, _)
FramesFrom(bytes, pos) ==
    IF pos >= Len(bytes) THEN 0
    ELSE LET p == parse_next(bytes, pos)
         IN  IF p.r.ok /\ p.pos > pos THEN 1 + FramesFrom(bytes, p.pos) ELSE 0

\* The number of frames of the clients a read uses up: the complete frames it
\* holds, and one for a read that holds none.
Writes(read) == IF FramesFrom(read, 0) > 1 THEN FramesFrom(read, 0) ELSE 1

Zero == "0x00"

\* ReadHalf::recv: the read fills the front of a zeroed buffer of 512 bytes, and
\* the whole buffer is parsed.
recv(read) ==
    IF Len(read) = 0 THEN Ok(None)
    ELSE LET n   == IF Len(read) < BufSize THEN Len(read) ELSE BufSize
             buf == [i \in 1..BufSize |-> IF i <= n THEN read[i] ELSE Zero]
             t   == parse(buf)
         IN  IF t.ok THEN Ok(Some(t.v)) ELSE Err(t.e)

\* What recv returns for each read.
Reads == {[read |-> read, r |-> recv(read), n |-> Writes(read)] : read \in SocketReads}

\* Command::new over each frame received.
Frames ==
    {[read |-> x.read, r |-> x.r, n |-> x.n,
      command |-> IF x.r.ok /\ x.r.v.some THEN Command_new(TypeConsumer_new(x.r.v.v))
                  ELSE Err(Empty)]
       : x \in Reads}

\* The reads with what the reader makes of each: the error of recv, the peer's
\* close, a command, or the error of Command::new.
Received ==
    {IF ~x.r.ok THEN [read |-> x.read, n |-> x.n, k |-> "error", e |-> x.r.e]
     ELSE IF ~x.r.v.some THEN [read |-> x.read, n |-> x.n, k |-> "closed"]
     ELSE IF x.command.ok
     THEN [read |-> x.read, n |-> x.n, k |-> "command", c |-> x.command.v]
     ELSE [read |-> x.read, n |-> x.n, k |-> "undecoded", e |-> x.command.e]
       : x \in Frames}

\* fn error (server.rs 183-188): the Display of the error after "Error: ".
error_reply(e) ==
    Error(<<"Error: ", e.k>>
            \o (IF e.k = "InvalidFrame" THEN <<e.cause.k, e.field>> ELSE <<>>)
            \o (IF e.k = "MissingField" THEN <<e.field>> ELSE <<>>))

\* A frame in a channel, with what it is: the reply to the re-th frame the
\* connection received, or the event of the sid-th set for the idx-th subscription
\* of its key.
Reply(f, re) == [f |-> f, re |-> re, sid |-> 0, idx |-> 0]
NoMsg == [f |-> Null, re |-> 0, sid |-> 0, idx |-> 0]

\* The locals of a reader: the command it decoded and the reply it will send.
Idle == [cmd |-> [c |-> "none"], msg |-> NoMsg]

\* The Receiver lives in the writer task and is dropped with it.
Closed(c) == wpc[c] = "done"

\* The Senders of a channel: the reader's, the clones held by subscriptions and
\* the clones held by spawned tasks.
SendersLeft(c) ==
    \/ rpc[c] # "done"
    \/ \E k \in SysKeys : \E i \in 1..Len(subscriptions[k]) :
           subscriptions[k][i].subscriber = c
    \/ \E t \in tasks : t.to = c

SysStart(frames) ==
    /\ data = [k \in SysKeys |-> None]
    /\ subscriptions = [k \in SysKeys |-> <<>>]
    /\ rpc = [c \in Conns |-> "recv"]
    /\ rreg = [c \in Conns |-> Idle]
    /\ chan = [c \in Conns |-> <<>>]
    /\ wpc = [c \in Conns |-> "recv"]
    /\ wreg = [c \in Conns |-> NoMsg]
    /\ sock = [c \in Conns |-> <<>>]
    /\ tasks = {}
    /\ arrived = [c \in Conns |-> 0]
    /\ left = frames
    /\ nset = 0
    /\ lastSet = [k \in SysKeys |-> None]
    /\ locks = [inner |-> None, subscriptions |-> None]
    /\ th = [c \in Conns |-> [pc |-> "idle"]]

SysInit == SysStart(MaxCmds)

\* The reader's recv fails or returns None: the loop ends (server.rs 161-164).
ReaderStop(c, got) ==
    /\ rpc[c] = "recv"
    /\ got.k \in {"error", "closed"}
    /\ rpc' = [rpc EXCEPT ![c] = "done"]
    /\ UNCHANGED <<pure, lck, data, subscriptions, rreg, chan, wpc, wreg, sock, tasks, arrived, left, nset,
                   lastSet>>

\* The reader's recv returns a frame: the read used up got.n frames of the clients.
Arrive(c, got) ==
    /\ rpc[c] = "recv"
    /\ left >= got.n
    /\ left' = left - got.n
    /\ arrived' = [arrived EXCEPT ![c] = @ + 1]

\* Command::new fails: the error is the reply (server.rs 154).
ReaderUndecoded(c, got) ==
    /\ Arrive(c, got)
    /\ got.k = "undecoded"
    /\ rreg' = [rreg EXCEPT ![c] = [cmd |-> [c |-> "undecoded"],
                                    msg |-> Reply(error_reply(got.e), arrived'[c])]]
    /\ rpc' = [rpc EXCEPT ![c] = "send"]
    /\ UNCHANGED <<pure, lck, data, subscriptions, chan, wpc, wreg, sock, tasks, nset, lastSet>>

ReaderGet(c, got) ==
    /\ Arrive(c, got)
    /\ got.k = "command"
    /\ got.c.c = "Get"
    /\ rreg' = [rreg EXCEPT ![c] = [cmd |-> got.c,
                                    msg |-> Reply(get(data, got.c.key), arrived'[c])]]
    /\ rpc' = [rpc EXCEPT ![c] = "send"]
    /\ UNCHANGED <<pure, lck, data, subscriptions, chan, wpc, wreg, sock, tasks, nset, lastSet>>

ReaderPush(c, got) ==
    /\ Arrive(c, got)
    /\ got.k = "command"
    /\ got.c.c = "Push"
    /\ LET p == got.c
           r == push(data, p.list_name, p.values)
       IN  /\ data' = r.db
           /\ rreg' = [rreg EXCEPT ![c] = [cmd |-> p, msg |-> Reply(r.reply, arrived'[c])]]
    /\ rpc' = [rpc EXCEPT ![c] = "send"]
    /\ UNCHANGED <<pure, lck, subscriptions, chan, wpc, wreg, sock, tasks, nset, lastSet>>

\* Database::watch with a clone of the connection's sender.
ReaderWatch(c, got) ==
    /\ Arrive(c, got)
    /\ got.k = "command"
    /\ got.c.c = "Watch"
    /\ LET w == got.c
       IN  /\ subscriptions' = subscribe_for_changes(subscriptions, w.key,
                                   OperationSubscription(w.operation, c))
           /\ rreg' = [rreg EXCEPT ![c] = [cmd |-> w, msg |-> Reply(OkReply, arrived'[c])]]
    /\ rpc' = [rpc EXCEPT ![c] = "send"]
    /\ UNCHANGED <<pure, lck, data, chan, wpc, wreg, sock, tasks, nset, lastSet>>

\* Database::set up to the end of insert's critical section.  was is what the
\* data map held for the key when the set took effect.
ReaderSet(c, got) ==
    /\ Arrive(c, got)
    /\ got.k = "command"
    /\ got.c.c = "Set"
    /\ LET s == got.c
           r == insert(data, s.key, Value_String(s.value))
       IN  /\ data' = r.db
           /\ rreg' = [rreg EXCEPT ![c] =
                          [cmd |-> s, msg |-> NoMsg, before |-> r.before,
                           after |-> Value_String(s.value), sid |-> nset + 1,
                           was |-> data[s.key]]]
           /\ lastSet' = [lastSet EXCEPT ![s.key] = Some(s.value)]
    /\ nset' = nset + 1
    /\ rpc' = [rpc EXCEPT ![c] = "invoke"]
    /\ UNCHANGED <<pure, lck, subscriptions, chan, wpc, wreg, sock, tasks>>

\* The event of a task with the set it is of: its key, its value and what it
\* replaced.
Spawned(t, r) == [t EXCEPT !.msg = [f |-> t.msg.f, re |-> 0, sid |-> t.msg.sid, idx |-> t.msg.idx,
                                    key |-> r.cmd.key, value |-> r.cmd.value, was |-> r.was]]

\* A set that waits for room in the channel of every subscriber of its key.
ReaderInvoke_awaiting(c) ==
    /\ rpc[c] = "invoke"
    /\ \A i \in 1..Len(subscriptions[rreg[c].cmd.key]) :
          /\ ~Closed(subscriptions[rreg[c].cmd.key][i].subscriber)
          /\ Len(chan[subscriptions[rreg[c].cmd.key][i].subscriber]) < Capacity
    /\ tasks' = tasks \cup
                  {Spawned(t, rreg[c]) :
                     t \in invoke_subscribers(subscriptions, rreg[c].cmd.key, rreg[c].before,
                                              rreg[c].after, rreg[c].sid)}
    /\ rreg' = [rreg EXCEPT ![c] = [cmd |-> rreg[c].cmd, msg |-> Reply(OkReply, arrived[c])]]
    /\ rpc' = [rpc EXCEPT ![c] = "send"]
    /\ UNCHANGED <<pure, lck, data, subscriptions, chan, wpc, wreg, sock, arrived, left, nset, lastSet>>

\* The rest of Database::set: invoke_subscribers spawns the deliveries, and Ok is
\* the reply.
ReaderInvoke(c) ==
    /\ rpc[c] = "invoke"
    /\ tasks' = tasks \cup
                  {Spawned(t, rreg[c]) :
                     t \in invoke_subscribers(subscriptions, rreg[c].cmd.key, rreg[c].before,
                                              rreg[c].after, rreg[c].sid)}
    /\ rreg' = [rreg EXCEPT ![c] = [cmd |-> rreg[c].cmd, msg |-> Reply(OkReply, arrived[c])]]
    /\ rpc' = [rpc EXCEPT ![c] = "send"]
    /\ UNCHANGED <<pure, lck, data, subscriptions, chan, wpc, wreg, sock, arrived, left, nset, lastSet>>

\* A send that does not wait for room in the channel.
ReaderSend_unbounded(c) ==
    /\ rpc[c] = "send"
    /\ ~Closed(c)
    /\ chan' = [chan EXCEPT ![c] = Append(@, rreg[c].msg)]
    /\ rreg' = [rreg EXCEPT ![c] = Idle]
    /\ rpc' = [rpc EXCEPT ![c] = "recv"]
    /\ UNCHANGED <<pure, lck, data, subscriptions, wpc, wreg, sock, tasks, arrived, left, nset, lastSet>>

\* response_sender.send(..).await with room in the channel.
ReaderSend(c) ==
    /\ rpc[c] = "send"
    /\ ~Closed(c)
    /\ Len(chan[c]) < Capacity
    /\ chan' = [chan EXCEPT ![c] = Append(@, rreg[c].msg)]
    /\ rreg' = [rreg EXCEPT ![c] = Idle]
    /\ rpc' = [rpc EXCEPT ![c] = "recv"]
    /\ UNCHANGED <<pure, lck, data, subscriptions, wpc, wreg, sock, tasks, arrived, left, nset, lastSet>>

\* The send fails, the receiver being dropped: the loop ends (server.rs 156-159).
ReaderSendFails(c) ==
    /\ rpc[c] = "send"
    /\ Closed(c)
    /\ rreg' = [rreg EXCEPT ![c] = Idle]
    /\ rpc' = [rpc EXCEPT ![c] = "done"]
    /\ UNCHANGED <<pure, lck, data, subscriptions, chan, wpc, wreg, sock, tasks, arrived, left, nset, lastSet>>

\* A writer taking the newest frame of the channel.
WriterRecv_newest(c) ==
    /\ wpc[c] = "recv"
    /\ chan[c] # <<>>
    /\ wreg' = [wreg EXCEPT ![c] = chan[c][Len(chan[c])]]
    /\ chan' = [chan EXCEPT ![c] = SubSeq(@, 1, Len(@) - 1)]
    /\ wpc' = [wpc EXCEPT ![c] = "write"]
    /\ UNCHANGED <<pure, lck, data, subscriptions, rpc, rreg, sock, tasks, arrived, left, nset, lastSet>>

\* response_receiver.recv().await returns a frame.
WriterRecv(c) ==
    /\ wpc[c] = "recv"
    /\ chan[c] # <<>>
    /\ wreg' = [wreg EXCEPT ![c] = Head(chan[c])]
    /\ chan' = [chan EXCEPT ![c] = Tail(@)]
    /\ wpc' = [wpc EXCEPT ![c] = "write"]
    /\ UNCHANGED <<pure, lck, data, subscriptions, rpc, rreg, sock, tasks, arrived, left, nset, lastSet>>

\* It returns None: the channel is empty and every Sender is dropped.
WriterEnds(c) ==
    /\ wpc[c] = "recv"
    /\ chan[c] = <<>>
    /\ ~SendersLeft(c)
    /\ wpc' = [wpc EXCEPT ![c] = "done"]
    /\ UNCHANGED <<pure, lck, data, subscriptions, rpc, rreg, chan, wreg, sock, tasks, arrived, left,
                   nset, lastSet>>

WriterWrite(c) ==
    /\ wpc[c] = "write"
    /\ sock' = [sock EXCEPT ![c] = Append(@, wreg[c])]
    /\ wreg' = [wreg EXCEPT ![c] = NoMsg]
    /\ wpc' = [wpc EXCEPT ![c] = "recv"]
    /\ UNCHANGED <<pure, lck, data, subscriptions, rpc, rreg, chan, tasks, arrived, left, nset, lastSet>>

\* write.send fails: the loop ends, and the Receiver is dropped with what it holds.
WriterFails(c) ==
    /\ wpc[c] = "write"
    /\ wreg' = [wreg EXCEPT ![c] = NoMsg]
    /\ chan' = [chan EXCEPT ![c] = <<>>]
    /\ wpc' = [wpc EXCEPT ![c] = "done"]
    /\ UNCHANGED <<pure, lck, data, subscriptions, rpc, rreg, sock, tasks, arrived, left, nset, lastSet>>

\* A spawned task's sender.send(..).await with room in the channel.
\* A delivery that waits for the deliveries of earlier sets to its subscriber.
Deliver_in_order(t) ==
    /\ t \in tasks
    /\ \A u \in tasks : u.to = t.to => u.msg.sid >= t.msg.sid
    /\ ~Closed(t.to)
    /\ Len(chan[t.to]) < Capacity
    /\ chan' = [chan EXCEPT ![t.to] = Append(@, t.msg)]
    /\ tasks' = tasks \ {t}
    /\ UNCHANGED <<pure, lck, data, subscriptions, rpc, rreg, wpc, wreg, sock, arrived, left, nset,
                   lastSet>>

Deliver(t) ==
    /\ t \in tasks
    /\ ~Closed(t.to)
    /\ Len(chan[t.to]) < Capacity
    /\ chan' = [chan EXCEPT ![t.to] = Append(@, t.msg)]
    /\ tasks' = tasks \ {t}
    /\ UNCHANGED <<pure, lck, data, subscriptions, rpc, rreg, wpc, wreg, sock, arrived, left, nset,
                   lastSet>>

\* A failed send that takes the other deliveries of its set down with it.
DeliverFails_all(t) ==
    /\ t \in tasks
    /\ Closed(t.to)
    /\ tasks' = {u \in tasks : u.msg.sid # t.msg.sid}
    /\ UNCHANGED <<pure, lck, data, subscriptions, rpc, rreg, chan, wpc, wreg, sock, arrived, left,
                   nset, lastSet>>

\* The send fails and expect("Error") panics: the task ends, the event is lost.
DeliverFails(t) ==
    /\ t \in tasks
    /\ Closed(t.to)
    /\ tasks' = tasks \ {t}
    /\ UNCHANGED <<pure, lck, data, subscriptions, rpc, rreg, chan, wpc, wreg, sock, arrived, left,
                   nset, lastSet>>

SysNext ==
    \/ \E c \in Conns, got \in Received :
          \/ ReaderStop(c, got)
          \/ ReaderUndecoded(c, got)
          \/ ReaderGet(c, got)
          \/ ReaderPush(c, got)
          \/ ReaderWatch(c, got)
          \/ ReaderSet(c, got)
    \/ \E c \in Conns :
          \/ ReaderInvoke(c)
          \/ ReaderSend(c)
          \/ ReaderSendFails(c)
          \/ WriterRecv(c)
          \/ WriterEnds(c)
          \/ WriterWrite(c)
          \/ WriterFails(c)
    \/ \E t \in tasks : Deliver(t)
    \/ \E t \in tasks : DeliverFails(t)

(***************************************************************************)
(* The codec's inputs: the Types of the round trip and the bytes fed to    *)
(* the parser.                                                             *)
(***************************************************************************)
MaxStrLen == 2
MaxArrLen == 2
MaxInt    == 12
MaxFeed   == 5
MaxKeyLen == 1
MaxValues == 2

SeqsUpTo(S, n) == UNION {[1..k -> S] : k \in 0..n}

TextChars == {"a", "7"}          \* text of a SimpleString or Error: no CR, no LF
BulkBytes == {"a", CR, LF}       \* a BulkString is binary safe
FeedBytes == {"+", "-", ":", "$", "*", "1", "a", CR, LF}

Scalars(n) ==
    {SimpleString(s) : s \in SeqsUpTo(TextChars, n)}
      \cup {Error(s) : s \in SeqsUpTo(TextChars, n)}
      \cup {Integer(i) : i \in (0 - MaxInt)..MaxInt}
      \cup {Null}
      \cup {BulkString(b) : b \in SeqsUpTo(BulkBytes, n)}

\* Arrays: flat ones over the short scalars, and nested ones.
FlatElems == Scalars(1)
FlatArrays == {Array(a) : a \in SeqsUpTo(FlatElems, MaxArrLen)}
NestElems ==
    {Null, Integer(-1), BulkString(<<>>), Array(<<>>), Array(<<BulkString(<<"a">>)>>),
     Array(<<SimpleString(<<"a">>), Integer(7)>>), Array(<<Array(<<>>), Error(<<>>)>>)}
NestArrays == {Array(a) : a \in SeqsUpTo(NestElems, MaxArrLen)}

RoundTripTypes == Scalars(MaxStrLen) \cup FlatArrays \cup NestArrays

\* The commands of the round trip: keys, values and list names are Strings.
CmdChars == {"k", "7"}
CmdStrings == SeqsUpTo(CmdChars, MaxKeyLen)
RoundTripCommands ==
    {Get(k) : k \in CmdStrings}
      \cup {Set(k, v) : k \in CmdStrings, v \in CmdStrings}
      \cup {Push(l, xs) : l \in CmdStrings, xs \in SeqsUpTo(CmdStrings, MaxValues)}
      \cup {Watch(k, o) : k \in CmdStrings, o \in Operations}

(***************************************************************************)
(* SpecCodec: a Type is serialized, and the bytes are parsed back.         *)
(***************************************************************************)
FeedInit == feed = [buf |-> <<>>, res |-> parse(<<>>), inc |-> FALSE]
RtIdle   == rt = [phase |-> "idle"]
RcIdle   == rc = [phase |-> "idle"]
TcIdle   == tc = [n |-> 0]
ClIdle   == cl = [pc |-> "idle"]

CodecInit ==
    /\ rt \in {[phase |-> "type", t |-> t] : t \in RoundTripTypes}
    /\ FeedInit
    /\ RcIdle
    /\ TcIdle /\ ClIdle
    /\ SysInit

Serialize ==
    /\ rt.phase = "type"
    /\ rt' = [phase |-> "bytes", t |-> rt.t, bytes |-> into_bytes(rt.t)]
    /\ UNCHANGED <<feed, rc, sys, lck, tc, cl>>

ParseBack ==
    /\ rt.phase = "bytes"
    /\ rt' = [phase |-> "parsed", t |-> rt.t, bytes |-> rt.bytes, back |-> parse(rt.bytes)]
    /\ UNCHANGED <<feed, rc, sys, lck, tc, cl>>

\* The bytes cut after their first n, as a read that ends inside the frame
\* leaves them.
ParseTruncated(n) ==
    /\ rt.phase = "bytes"
    /\ n < Len(rt.bytes)
    /\ rt' = [phase |-> "truncated", t |-> rt.t, bytes |-> SubSeq(rt.bytes, 1, n),
              back |-> parse(SubSeq(rt.bytes, 1, n))]
    /\ UNCHANGED <<feed, rc, sys, lck, tc, cl>>

\* The bytes with their i-th replaced by another byte.
Corruptions == {"a", "2", CR}

ParseCorrupted(i, b) ==
    /\ rt.phase = "bytes"
    /\ i <= Len(rt.bytes)
    /\ rt.bytes[i] # b
    /\ rt' = [phase |-> "corrupted", t |-> rt.t, bytes |-> [rt.bytes EXCEPT ![i] = b],
              back |-> parse([rt.bytes EXCEPT ![i] = b])]
    /\ UNCHANGED <<feed, rc, sys, lck, tc, cl>>

MaxBytes == 24

CodecNext ==
    \/ Serialize
    \/ ParseBack
    \/ \E n \in 0..MaxBytes : ParseTruncated(n)
    \/ \E i \in 1..MaxBytes, b \in Corruptions : ParseCorrupted(i, b)

SpecCodec == CodecInit /\ [][CodecNext]_vars

(***************************************************************************)
(* SpecFeed: the bytes of a buffer arrive one at a time and the whole      *)
(* buffer is parsed again after each (the retry of ParseError::Incomplete);*)
(* inc records that an earlier prefix of the buffer returned Incomplete.   *)
(***************************************************************************)
FeedSpecInit == RtIdle /\ FeedInit /\ RcIdle /\ TcIdle /\ ClIdle /\ SysInit

Feed(b) ==
    /\ Len(feed.buf) < MaxFeed
    /\ feed' = [buf |-> Append(feed.buf, b),
                res |-> parse(Append(feed.buf, b)),
                inc |-> feed.inc \/ feed.res = Err(Incomplete)]
    /\ UNCHANGED <<rt, rc, sys, lck, tc, cl>>

FeedNext == \E b \in FeedBytes : Feed(b)

SpecFeed == FeedSpecInit /\ [][FeedNext]_vars

(***************************************************************************)
(* SpecCmd: the client encodes a Command (client.rs: `get.into()`), and    *)
(* Command::new decodes the frame over a TypeConsumer (server.rs 145-146). *)
(***************************************************************************)
CmdInit ==
    /\ rc \in {[phase |-> "command", c |-> c] : c \in RoundTripCommands}
    /\ RtIdle
    /\ FeedInit
    /\ TcIdle /\ ClIdle
    /\ SysInit

Encode ==
    /\ rc.phase = "command"
    /\ rc' = [phase |-> "frame", c |-> rc.c, frame |-> Command_into(rc.c)]
    /\ UNCHANGED <<rt, feed, sys, lck, tc, cl>>

\* Command::new over the frame that was sent: the command's own frame, or the
\* frame a step below made of it, whose kind names the phase that follows.
Decode ==
    /\ rc.phase \in {"frame", "sent"}
    /\ rc' = [phase |-> IF rc.phase = "frame" THEN "decoded" ELSE rc.kind,
              back  |-> Command_new(TypeConsumer_new(rc.frame))] @@ rc
    /\ UNCHANGED <<rt, feed, sys, lck, tc, cl>>

\* The letter-case variants of a command's name that a client can send in place
\* of the uppercase one: "get", "Get".
Variants == {"lower", "capitalized"}

LowerCase(ch) ==
    CASE ch = "A" -> "a" [] ch = "C" -> "c" [] ch = "E" -> "e" [] ch = "G" -> "g"
      [] ch = "H" -> "h" [] ch = "P" -> "p" [] ch = "S" -> "s" [] ch = "T" -> "t"
      [] ch = "U" -> "u" [] ch = "W" -> "w" [] OTHER -> ch

Cased(frame, variant) ==
    Array(<<BulkString([i \in 1..Len(frame.v[1].v) |->
                          IF i = 1 /\ variant = "capitalized" THEN frame.v[1].v[i]
                          ELSE LowerCase(frame.v[1].v[i])])>>
            \o Tail(frame.v))

\* The frame is sent with its name in another letter case.
SendCased(variant) ==
    /\ rc.phase = "frame"
    /\ rc' = [phase |-> "sent", kind |-> "cased", c |-> rc.c,
              frame |-> Cased(rc.frame, variant)]
    /\ UNCHANGED <<rt, feed, sys, lck, tc, cl>>

\* The frame cut after its first n elements: the name and the fields before
\* the one that is missing.
Short(frame, n) == Array(SubSeq(frame.v, 1, n))

\* The frame is sent without its last fields.
SendShort(n) ==
    /\ rc.phase = "frame"
    /\ n < Len(rc.frame.v)
    /\ rc' = [phase |-> "sent", kind |-> "short", c |-> rc.c, frame |-> Short(rc.frame, n)]
    /\ UNCHANGED <<rt, feed, sys, lck, tc, cl>>

\* The integers a client can send as the operation of a WATCH: the four codes,
\* their neighbours, negative ones and ones above 255.
Codes == {-255, -1, 0, 1, 2, 3, 4, 5, 255, 256, 257, 259}

\* The WATCH frame with n as its operation.
Coded(frame, n) == Array(<<frame.v[1], frame.v[2], Integer(n)>>)

\* A WATCH frame is sent with the integer n as its operation.
SendCode(n) ==
    /\ rc.phase = "frame"
    /\ rc.c.c = "Watch"
    /\ rc' = [phase |-> "sent", kind |-> "code", c |-> rc.c, n |-> n,
              frame |-> Coded(rc.frame, n)]
    /\ UNCHANGED <<rt, feed, sys, lck, tc, cl>>

\* The frame with its i-th element replaced: the name by a name that is no
\* command's, a field by Null, which converts to nothing.
Replaced(frame, i) ==
    Array([frame.v EXCEPT ![i] = IF i = 1 THEN BulkString(<<"D", "E", "L">>) ELSE Null])

\* The frame is sent with an unknown name or an unconvertible field.
SendReplaced(i) ==
    /\ rc.phase = "frame"
    /\ i <= Len(rc.frame.v)
    /\ rc' = [phase |-> "sent", kind |-> "replaced", c |-> rc.c, n |-> i,
              frame |-> Replaced(rc.frame, i)]
    /\ UNCHANGED <<rt, feed, sys, lck, tc, cl>>

CmdNext ==
    \/ Encode
    \/ Decode
    \/ \E variant \in Variants : SendCased(variant)
    \/ \E n \in 1..(MaxValues + 1) : SendShort(n)
    \/ \E n \in Codes : SendCode(n)
    \/ \E i \in 1..(MaxValues + 2) : SendReplaced(i)

SpecCmd == CmdInit /\ [][CmdNext]_vars

(***************************************************************************)
(* SpecConsumer: a TypeConsumer is made over a Type and next_string,       *)
(* next_integer and next_bytes are called on it in any order.              *)
(***************************************************************************)
MaxTokens == 3

Targets == {"String", "Integer", "Bytes"}

ConsumerScalars ==
    {SimpleString(s) : s \in {<<>>, <<"a">>, <<"7">>, <<"-", "7">>, <<"1", "2">>,
                                     <<"7", "a">>}}
      \cup {BulkString(b) : b \in {<<>>, <<"a">>, <<"7">>, <<"-", "7">>, <<NotUtf8>>,
                                   <<"7", NotUtf8>>}}
      \cup {Integer(i) : i \in {-1, 0, MaxInt}}
      \cup {Null}

ConsumerElems == {SimpleString(<<"7">>), BulkString(<<"a">>), Integer(-1), Null, Array(<<>>)}

ConsumerTypes == ConsumerScalars \cup {Array(a) : a \in SeqsUpTo(ConsumerElems, MaxArrLen)}

ConsumerInit ==
    /\ tc \in {[t |-> t, inner |-> TypeConsumer_new(t), n |-> 0] : t \in ConsumerTypes}
    /\ RtIdle
    /\ FeedInit
    /\ RcIdle
    /\ ClIdle
    /\ SysInit

\* One call of next_string, next_integer or next_bytes: n counts the calls, r
\* is what the call returned.
NextToken(to) ==
    /\ tc.n < MaxTokens
    /\ tc' = [t |-> tc.t, inner |-> next_token(tc.inner, to).inner, n |-> tc.n + 1,
              to |-> to, r |-> next_token(tc.inner, to).r]
    /\ UNCHANGED <<rt, feed, rc, sys, lck, cl>>

ConsumerNext == \E to \in Targets : NextToken(to)

SpecConsumer == ConsumerInit /\ [][ConsumerNext]_vars

(***************************************************************************)
(* SpecClient: RedisClient::watch on one connection.  The server writes    *)
(* its reply to the WATCH and the events of the key; each recv of the      *)
(* client returns the next frame the server wrote.  The receiver of the    *)
(* watcher channel stays alive: watcher is what was sent to it so far.     *)
(***************************************************************************)
MaxWire == 3

\* What Database::watch returns (database.rs 223).
WatchReply == SimpleString(<<"O", "k">>)

\* The events of two sets of the watched key.
ClientEvents ==
    {WatchResult_into(WatchResult(<<"k">>, "Addition", None, SimpleString(<<"v">>))),
     WatchResult_into(WatchResult(<<"k">>, "Update", Some(SimpleString(<<"v">>)),
                                  SimpleString(<<"w">>)))}

ClientInit ==
    /\ cl = [pc |-> "send", wire |-> <<>>, open |-> TRUE, replied |-> FALSE, got |-> <<>>,
             watcher |-> <<>>]
    /\ RtIdle
    /\ FeedInit
    /\ RcIdle
    /\ TcIdle
    /\ SysInit

\* self.write_half.send(watch.into()).await? (client.rs 63)
ClientSends ==
    /\ cl.pc = "send"
    /\ cl' = [cl EXCEPT !.pc = "recv"]
    /\ UNCHANGED <<rt, feed, rc, tc, sys, lck>>

\* The server writes its reply to the WATCH, once.
ServerReplies ==
    /\ cl.pc # "send"
    /\ cl.open
    /\ ~cl.replied
    /\ Len(cl.got) + Len(cl.wire) < MaxWire
    /\ cl' = [cl EXCEPT !.wire = Append(@, WatchReply), !.replied = TRUE]
    /\ UNCHANGED <<rt, feed, rc, tc, sys, lck>>

\* The server writes an event of the key.
ServerPushes(e) ==
    /\ cl.pc # "send"
    /\ cl.open
    /\ Len(cl.got) + Len(cl.wire) < MaxWire
    /\ cl' = [cl EXCEPT !.wire = Append(@, e)]
    /\ UNCHANGED <<rt, feed, rc, tc, sys, lck>>

PeerCloses ==
    /\ cl.pc # "send"
    /\ cl.open
    /\ cl' = [cl EXCEPT !.open = FALSE]
    /\ UNCHANGED <<rt, feed, rc, tc, sys, lck>>

\* One turn of the loop (client.rs 64-68): recv returned a frame; it is
\* converted, and the WatchResult is sent to the watcher or the error returned.
ClientRecv ==
    /\ cl.pc = "recv"
    /\ cl.wire # <<>>
    /\ LET v            == Head(cl.wire)
           watch_result == WatchResult_from(v)
       IN  cl' = IF watch_result.ok
                 THEN [cl EXCEPT !.wire = Tail(@), !.got = Append(@, v),
                                 !.watcher = Append(@, watch_result.v)]
                 ELSE [pc |-> "returned", why |-> "frame", r |-> watch_result]
                        @@ [cl EXCEPT !.wire = Tail(@), !.got = Append(@, v)]
    /\ UNCHANGED <<rt, feed, rc, tc, sys, lck>>

\* recv returned None: the peer closed the connection, watch returns Ok(()).
ClientRecvClosed ==
    /\ cl.pc = "recv"
    /\ cl.wire = <<>>
    /\ ~cl.open
    /\ cl' = [pc |-> "returned", why |-> "closed", r |-> Ok("unit")] @@ cl
    /\ UNCHANGED <<rt, feed, rc, tc, sys, lck>>

\* recv returned an I/O error.
ClientRecvFails ==
    /\ cl.pc = "recv"
    /\ cl' = [pc |-> "returned", why |-> "io", r |-> Err("io")] @@ cl
    /\ UNCHANGED <<rt, feed, rc, tc, sys, lck>>

ClientNext ==
    \/ ClientSends
    \/ ServerReplies
    \/ \E e \in ClientEvents : ServerPushes(e)
    \/ PeerCloses
    \/ ClientRecv
    \/ ClientRecvClosed
    \/ ClientRecvFails

SpecClient == ClientInit /\ [][ClientNext]_vars

(***************************************************************************)
(* Spec: the server with its connections.                                 *)
(***************************************************************************)
Next == SysNext

Init == SysInit /\ RtIdle /\ FeedInit /\ RcIdle /\ TcIdle /\ ClIdle

Spec == Init /\ [][Next]_vars

(***************************************************************************)
(* LiveSpec: the server under the scheduling of the tokio runtime.  A task *)
(* that can run does run (WF).  A send waiting for room in a channel gets  *)
(* it once the writer keeps receiving, the channel's semaphore serving its *)
(* waiters in order (SF).  A write to the socket completes or fails.       *)
(* Nothing obliges a client to send, to close, or a write to fail.         *)
(***************************************************************************)
MaxLiveCmds == 2

LiveInit == SysStart(MaxLiveCmds) /\ RtIdle /\ FeedInit /\ RcIdle /\ TcIdle /\ ClIdle

Scheduling ==
    \A c \in Conns :
        /\ WF_vars(ReaderInvoke(c))
        /\ SF_vars(ReaderSend(c))
        /\ WF_vars(ReaderSendFails(c))
        /\ WF_vars(WriterRecv(c))
        /\ WF_vars(WriterEnds(c))
        /\ WF_vars(WriterWrite(c))
        /\ SF_vars((\E t \in tasks : t.to = c /\ Deliver(t)))
        /\ WF_vars((\E t \in tasks : t.to = c /\ DeliverFails(t)))

LiveSpec == LiveInit /\ [][Next]_vars /\ Scheduling

(***************************************************************************)
(* SpecLocks: the methods of Database at the grain of their mutexes.  A    *)
(* thread is a connection's reader inside the method it called on its      *)
(* clone of the Database; the guards of lock_and_access_inner and          *)
(* lock_and_access_subscriptions are held from the lock() to the drop or   *)
(* the end of the function.  The tasks spawned by invoke_subscribers are   *)
(* polled by the runtime's workers, which run beside the threads.          *)
(***************************************************************************)
MaxCalls == 3

LocksInit == SysStart(MaxCalls) /\ RtIdle /\ FeedInit /\ RcIdle /\ TcIdle /\ ClIdle

\* The calls of the threads: those of the clients of Spec, and a watch of each
\* operation.
LockCommands ==
    SysCommands \cup {Watch(<<"k">>, o) : o \in Operations} \cup {Push(<<"l">>, <<>>)}

\* The reader calls get, set, push or watch (get, push and insert start with
\* lock_and_access_inner, watch with subscribe_for_changes).
Call(c, cmd) ==
    /\ th[c].pc = "idle"
    /\ left > 0
    /\ left' = left - 1
    /\ th' = [th EXCEPT ![c] = [pc  |-> IF cmd.c = "Watch" THEN "lock_subscriptions"
                                        ELSE "lock_inner",
                                cmd |-> cmd]]
    /\ UNCHANGED <<pure, locks, data, subscriptions, rpc, rreg, chan, wpc, wreg, sock, tasks,
                   arrived, nset, lastSet>>

\* self.inner.lock(): the thread waits until the mutex is free.
lock_and_access_inner(c) ==
    /\ th[c].pc = "lock_inner"
    /\ locks.inner = None
    /\ locks' = [locks EXCEPT !.inner = Some(c)]
    /\ th' = [th EXCEPT ![c].pc = "inner"]
    /\ UNCHANGED <<pure, data, subscriptions, rpc, rreg, chan, wpc, wreg, sock, tasks, arrived,
                   left, nset, lastSet>>

\* Database::get under the guard, which is dropped on return.
GetReturns(c) ==
    /\ th[c].pc = "inner"
    /\ th[c].cmd.c = "Get"
    /\ locks' = [locks EXCEPT !.inner = None]
    /\ th' = [th EXCEPT ![c] = [pc |-> "idle"]]
    /\ UNCHANGED <<pure, data, subscriptions, rpc, rreg, chan, wpc, wreg, sock, tasks, arrived,
                   left, nset, lastSet>>

\* A push that notifies the subscribers of its key as a set does.
PushReturns_notifying(c) ==
    /\ th[c].pc = "inner"
    /\ th[c].cmd.c = "Push"
    /\ data' = push(data, th[c].cmd.list_name, th[c].cmd.values).db
    /\ tasks' = tasks \cup
                  {[to |-> t.to, msg |-> t.msg, st |-> "spawned"] :
                     t \in invoke_subscribers(subscriptions, th[c].cmd.list_name,
                                              data[th[c].cmd.list_name],
                                              Value_from_list(th[c].cmd.values), nset + 1)}
    /\ locks' = [locks EXCEPT !.inner = None]
    /\ th' = [th EXCEPT ![c] = [pc |-> "idle"]]
    /\ UNCHANGED <<pure, subscriptions, rpc, rreg, chan, wpc, wreg, sock, arrived, left, nset,
                   lastSet>>

\* Database::push under the guard, which is dropped on return.
PushReturns(c) ==
    /\ th[c].pc = "inner"
    /\ th[c].cmd.c = "Push"
    /\ data' = push(data, th[c].cmd.list_name, th[c].cmd.values).db
    /\ locks' = [locks EXCEPT !.inner = None]
    /\ th' = [th EXCEPT ![c] = [pc |-> "idle"]]
    /\ UNCHANGED <<pure, subscriptions, rpc, rreg, chan, wpc, wreg, sock, tasks, arrived, left,
                   nset, lastSet>>

\* An insert that goes on to invoke_subscribers with the guard of inner alive.
InsertDrops_late(c) ==
    /\ th[c].pc = "inner"
    /\ th[c].cmd.c = "Set"
    /\ data' = insert(data, th[c].cmd.key, Value_String(th[c].cmd.value)).db
    /\ nset' = nset + 1
    /\ th' = [th EXCEPT ![c] = [pc |-> "lock_subscriptions", cmd |-> th[c].cmd,
                                before |-> data[th[c].cmd.key], sid |-> nset + 1, i |-> 0]]
    /\ UNCHANGED <<pure, locks, subscriptions, rpc, rreg, chan, wpc, wreg, sock, tasks, arrived,
                   left, lastSet>>

\* An insert that does not keep the value db.insert returned.
InsertDrops_blind(c) ==
    /\ th[c].pc = "inner"
    /\ th[c].cmd.c = "Set"
    /\ data' = insert(data, th[c].cmd.key, Value_String(th[c].cmd.value)).db
    /\ nset' = nset + 1
    /\ locks' = [locks EXCEPT !.inner = None]
    /\ th' = [th EXCEPT ![c] = [pc |-> "lock_subscriptions", cmd |-> th[c].cmd,
                                before |-> None, sid |-> nset + 1, i |-> 0]]
    /\ UNCHANGED <<pure, subscriptions, rpc, rreg, chan, wpc, wreg, sock, tasks, arrived, left,
                   lastSet>>

\* Database::insert up to drop(db): the map is updated and the guard of inner
\* dropped; invoke_subscribers comes next.
InsertDrops(c) ==
    /\ th[c].pc = "inner"
    /\ th[c].cmd.c = "Set"
    /\ data' = insert(data, th[c].cmd.key, Value_String(th[c].cmd.value)).db
    /\ nset' = nset + 1
    /\ locks' = [locks EXCEPT !.inner = None]
    /\ th' = [th EXCEPT ![c] = [pc |-> "lock_subscriptions", cmd |-> th[c].cmd,
                                before |-> data[th[c].cmd.key], sid |-> nset + 1, i |-> 0]]
    /\ UNCHANGED <<pure, subscriptions, rpc, rreg, chan, wpc, wreg, sock, tasks, arrived, left,
                   lastSet>>

\* self.subscriptions.lock(), in subscribe_for_changes and in invoke_subscribers.
lock_and_access_subscriptions(c) ==
    /\ th[c].pc = "lock_subscriptions"
    /\ locks.subscriptions = None
    /\ locks' = [locks EXCEPT !.subscriptions = Some(c)]
    /\ th' = [th EXCEPT ![c].pc = "subscriptions"]
    /\ UNCHANGED <<pure, data, subscriptions, rpc, rreg, chan, wpc, wreg, sock, tasks, arrived,
                   left, nset, lastSet>>

\* subscribe_for_changes under the guard, which is dropped on return.  The
\* subscription carries, as history, the number of sets whose map update came
\* before it.
SubscribeReturns(c) ==
    /\ th[c].pc = "subscriptions"
    /\ th[c].cmd.c = "Watch"
    /\ subscriptions' = subscribe_for_changes(subscriptions, th[c].cmd.key,
                            OperationSubscription(th[c].cmd.operation, c) @@ [at |-> nset])
    /\ locks' = [locks EXCEPT !.subscriptions = None]
    /\ th' = [th EXCEPT ![c] = [pc |-> "idle"]]
    /\ UNCHANGED <<pure, data, rpc, rreg, chan, wpc, wreg, sock, tasks, arrived, left, nset,
                   lastSet>>

\* The deliveries invoke_subscribers has yet to spawn: those of the subscriptions
\* after the i-th.
ToSpawn(c) ==
    {t \in invoke_subscribers(subscriptions, th[c].cmd.key, th[c].before,
                              Value_String(th[c].cmd.value), th[c].sid) : t.msg.idx > th[c].i}

\* An invoke_subscribers that sends the event itself, under the guard.
InvokeSpawns_sending(c) ==
    /\ th[c].pc = "subscriptions"
    /\ th[c].cmd.c = "Set"
    /\ \E t \in ToSpawn(c) :
          /\ t.msg.idx = th[c].i + 1
          /\ ~Closed(t.to)
          /\ Len(chan[t.to]) < Capacity
          /\ chan' = [chan EXCEPT ![t.to] = Append(@, t.msg)]
    /\ th' = [th EXCEPT ![c].i = @ + 1]
    /\ UNCHANGED <<pure, locks, data, subscriptions, rpc, rreg, tasks, wpc, wreg, sock, arrived,
                   left, nset, lastSet>>

\* One turn of the for_each of invoke_subscribers: tokio::spawn of the delivery
\* to the next subscription, under the guard.
InvokeSpawns(c) ==
    /\ th[c].pc = "subscriptions"
    /\ th[c].cmd.c = "Set"
    /\ \E t \in ToSpawn(c) :
          /\ t.msg.idx = th[c].i + 1
          /\ tasks' = tasks \cup {[to |-> t.to, msg |-> t.msg, st |-> "spawned"]}
    /\ th' = [th EXCEPT ![c].i = @ + 1]
    /\ UNCHANGED <<pure, locks, data, subscriptions, rpc, rreg, chan, wpc, wreg, sock, arrived,
                   left, nset, lastSet>>

\* The end of invoke_subscribers: the guard is dropped, and set returns.
InvokeReturns(c) ==
    /\ th[c].pc = "subscriptions"
    /\ th[c].cmd.c = "Set"
    /\ ToSpawn(c) = {}
    /\ locks' = [locks EXCEPT !.subscriptions = None]
    /\ th' = [th EXCEPT ![c] = [pc |-> "idle"]]
    /\ UNCHANGED <<pure, data, subscriptions, rpc, rreg, chan, wpc, wreg, sock, tasks, arrived,
                   left, nset, lastSet>>

\* A worker polls a spawned task, which builds its WatchResult and calls
\* sender.send: the send is in progress until Deliver or DeliverFails.
TaskSends(t) ==
    /\ t \in tasks
    /\ t.st = "spawned"
    /\ tasks' = (tasks \ {t}) \cup {[t EXCEPT !.st = "sending"]}
    /\ UNCHANGED <<pure, lck, data, subscriptions, rpc, rreg, chan, wpc, wreg, sock, arrived,
                   left, nset, lastSet>>

\* The send of a polled task completes, or fails.
TaskDelivers(t) == t.st = "sending" /\ Deliver(t)
TaskFails(t) == t.st = "sending" /\ DeliverFails(t)

\* The steps of thread c.
ThreadStep(c) ==
    \/ lock_and_access_inner(c)
    \/ GetReturns(c)
    \/ PushReturns(c)
    \/ InsertDrops(c)
    \/ lock_and_access_subscriptions(c)
    \/ SubscribeReturns(c)
    \/ InvokeSpawns(c)
    \/ InvokeReturns(c)

LocksNext ==
    \/ \E c \in Conns, cmd \in LockCommands : Call(c, cmd)
    \/ \E c \in Conns :
          \/ lock_and_access_inner(c)
          \/ GetReturns(c)
          \/ PushReturns(c)
          \/ InsertDrops(c)
          \/ lock_and_access_subscriptions(c)
          \/ SubscribeReturns(c)
          \/ InvokeSpawns(c)
          \/ InvokeReturns(c)
          \/ WriterRecv(c)
          \/ WriterWrite(c)
          \/ WriterFails(c)
    \/ \E t \in tasks : TaskSends(t)
    \/ \E t \in tasks : TaskDelivers(t)
    \/ \E t \in tasks : TaskFails(t)

SpecLocks == LocksInit /\ [][LocksNext]_vars

(***************************************************************************)
(* Claims.                                                                 *)
(***************************************************************************)

\* C5: every Type whose SimpleString/Error text has no CR or LF is returned
\* unchanged by parse_next over its into_bytes.
C5_RoundTrip == rt.phase = "parsed" => rt.back = Ok(rt.t)

C5_Witness ==
    /\ rt.phase = "parsed"
    /\ rt.t = Array(<<Array(<<Array(<<>>), Error(<<>>)>>), BulkString(<<>>)>>)
    /\ rt.back.ok

\* C6: every supported Command is returned unchanged by Command::new over
\* its client-side encoding.
C6_CommandRoundTrip == rc.phase = "decoded" => rc.back = Ok(rc.c)

C6_Witness ==
    /\ rc.phase = "decoded"
    /\ rc.c \in {Push(<<"k">>, <<>>), Watch(<<"k">>, "All")}
    /\ rc.back.ok

Sent(c) ==
    {chan[c][i] : i \in 1..Len(chan[c])}
      \cup {sock[c][i] : i \in 1..Len(sock[c])}
      \cup (IF wpc[c] = "write" THEN {wreg[c]} ELSE {})

\* The reader of c has just run the command of its latest frame.
Acted(c, name) ==
    /\ rpc[c] = "recv"
    /\ rpc'[c] = "send"
    /\ rreg'[c].cmd.c = name

\* C1: a get of a key that no push made a list returns Null if no set of the
\* key has taken effect, and otherwise SimpleString(v) for the latest set(k, v)
\* in data-lock order, whatever the connections that set and get.
C1_StoreConsistency ==
    [][\A c \in Conns :
          (/\ Acted(c, "Get")
           /\ ~(data[rreg'[c].cmd.key].some /\ data[rreg'[c].cmd.key].v.ty = "List"))
          => rreg'[c].msg.f = (IF lastSet[rreg'[c].cmd.key].some
                               THEN SimpleString(lastSet[rreg'[c].cmd.key].v)
                               ELSE Null)]_vars

\* A get answered with the second of two sets, the sets and the get not all on
\* one connection.
C1_Witness ==
    \E c \in Conns :
        /\ rpc[c] = "send"
        /\ rreg[c].cmd = Get(<<"k">>)
        /\ rreg[c].msg.f = SimpleString(<<"w">>)
        /\ nset = 2
        /\ arrived[1] > 0
        /\ arrived[2] > 0

\* The sid-th set took effect with the idx-th subscription of its key being c's.
Owed(c, sid, idx) ==
    \E r \in Conns :
        /\ rpc[r] = "invoke"
        /\ rreg[r].sid = sid
        /\ idx <= Len(subscriptions[rreg[r].cmd.key])
        /\ subscriptions[rreg[r].cmd.key][idx].subscriber = c

\* An event of the sid-th set for the idx-th subscription, of that set's key and
\* value.
EventOf(m, sid, idx) ==
    /\ m.sid = sid
    /\ m.idx = idx
    /\ m.f.t = "Array"
    /\ Len(m.f.v) = 4
    /\ m.f.v[1] = SimpleString(m.key)
    /\ m.f.v[4] = SimpleString(m.value)

Delivered(c, sid, idx) == \E m \in Sent(c) : EventOf(m, sid, idx)

\* The number of events of the sid-th set for the idx-th subscription that c's
\* channel was or is to be sent.
Copies(c, sid, idx) ==
    Cardinality({i \in 1..Len(chan[c]) : chan[c][i].sid = sid /\ chan[c][i].idx = idx})
      + Cardinality({i \in 1..Len(sock[c]) : sock[c][i].sid = sid /\ sock[c][i].idx = idx})
      + (IF wpc[c] = "write" /\ wreg[c].sid = sid /\ wreg[c].idx = idx THEN 1 ELSE 0)
      + Cardinality({t \in tasks : t.to = c /\ t.msg.sid = sid /\ t.msg.idx = idx})

\* C2: a set of k that takes effect with a subscription on k registered leads to
\* one event with that key and value in the subscriber's channel, unless the
\* channel is closed; no event is sent twice.
C2_WatchLiveness ==
    \A c \in Conns : \A sid \in 1..MaxLiveCmds : \A idx \in 1..MaxLiveCmds :
        /\ [](Copies(c, sid, idx) <= 1)
        /\ Owed(c, sid, idx) ~> (Delivered(c, sid, idx) \/ Closed(c))

\* The event of a set written to the socket of a connection that subscribed for
\* Removal.
C2_Witness ==
    \E c \in Conns : \E i \in 1..Len(sock[c]) :
        /\ EventOf(sock[c][i], 1, 1)
        /\ subscriptions[sock[c][i].key][1] = OperationSubscription("Removal", c)

\* C3: every event sent for a set(k, v) is the Array of SimpleString(k),
\* Integer(op), before and SimpleString(v), before being what the set replaced
\* in the data map or Null, and op being 1 when the key was absent and 2
\* otherwise.
C3_EventFrame ==
    \A c \in Conns : \A m \in Sent(c) :
        m.sid > 0 =>
            m.f = Array(<<SimpleString(m.key),
                          Integer(IF m.was.some THEN 2 ELSE 1),
                          IF m.was.some THEN Value_into(m.was.v) ELSE Null,
                          SimpleString(m.value)>>)

\* An Update on the socket: the event of a set that replaced a String.
C3_Witness ==
    \E c \in Conns : \E i \in 1..Len(sock[c]) :
        /\ sock[c][i].sid > 0
        /\ sock[c][i].was = Some(Value_String(<<"v">>))
        /\ sock[c][i].f.v[2] = Integer(2)

\* C4: on one connection the replies are written in the order in which their
\* frames were received.
C4_ReplyOrder ==
    \A c \in Conns : \A i, j \in 1..Len(sock[c]) :
        (i < j /\ sock[c][i].re > 0 /\ sock[c][j].re > 0) => sock[c][i].re < sock[c][j].re

\* A reply on the socket and the next two waiting in the channel.
C4_Witness ==
    \E c \in Conns :
        /\ Len(sock[c]) = 1
        /\ wpc[c] = "recv"
        /\ Len(chan[c]) = 2
        /\ chan[c][1].re = 2
        /\ chan[c][2].re = 3

\* The length of the list a key holds, 0 for a key that holds none.
Length(v) == IF v.some /\ v.v.ty = "List" THEN Len(v.v.l) ELSE 0

\* C8: a push(L, xs) whose reply is no Error replies Integer(n + |xs|), n being
\* the length of L before it, and leaves a list of n + |xs| elements.
C8_PushLength ==
    [][\A c \in Conns :
          (Acted(c, "Push") /\ rreg'[c].msg.f.t # "Error")
          => /\ rreg'[c].msg.f = Integer(Length(data[rreg'[c].cmd.list_name])
                                           + Len(rreg'[c].cmd.values))
             /\ data'[rreg'[c].cmd.list_name].some
             /\ data'[rreg'[c].cmd.list_name].v.ty = "List"
             /\ Length(data'[rreg'[c].cmd.list_name])
                  = Length(data[rreg'[c].cmd.list_name]) + Len(rreg'[c].cmd.values)]_vars

\* The second push to a list, from the other connection.
C8_Witness ==
    \E c \in Conns :
        /\ rpc[c] = "send"
        /\ rreg[c].cmd = Push(<<"l">>, <<<<"v">>, <<"w">>>>)
        /\ rreg[c].msg.f = Integer(4)
        /\ arrived[c] = 1
        /\ Length(data[<<"l">>]) = 4

\* C9 as stated, for a protocol error: bytes that are no frame never end the
\* reader's loop.
C9_ProtocolErrorKeepsServing ==
    \A c \in Conns : \A got \in Received : got.read \in BadBytes => ~ENABLED ReaderStop(c, got)

\* C10 as stated: a reader that has ended leads to its writer ending.
C10_WriterFollowsReader ==
    \A c \in Conns : (rpc[c] = "done") ~> (wpc[c] = "done")

\* C11 as stated: a writer that has ended (on a write error; a writer that
\* ended on None has its reader ended already) leads to its reader ending, no
\* further read of the socket being needed.
C11_ReaderFollowsWriter ==
    \A c \in Conns : (wpc[c] = "done") ~> (rpc[c] = "done")

\* The subscribers of a key: the connections with a subscription for it.
Subscribers(k) == {subscriptions[k][i].subscriber : i \in 1..Len(subscriptions[k])}

\* C12: a set never waits for a subscriber's channel.  A reader that received a
\* SET frame can run insert, a reader past insert can run invoke_subscribers
\* whatever the channels hold and whether or not their receivers live, and
\* what it then has to send is SimpleString("Ok").
C12_SetDoesNotWait ==
    \A c \in Conns :
        /\ \A got \in Received :
              (rpc[c] = "recv" /\ left > 0 /\ got.k = "command" /\ got.c.c = "Set")
              => ENABLED ReaderSet(c, got)
        /\ rpc[c] = "invoke" => ENABLED ReaderInvoke(c)
        /\ (rpc[c] = "send" /\ rreg[c].cmd.c = "Set") => rreg[c].msg.f = OkReply

\* A set has returned Ok while the channel of a subscriber of its key is full
\* and the delivery of its event waits for room.
C12_Witness ==
    \E c \in Conns : \E s \in Conns :
        /\ rpc[c] = "send"
        /\ rreg[c].cmd.c = "Set"
        /\ rreg[c].msg.f = OkReply
        /\ s \in Subscribers(rreg[c].cmd.key)
        /\ ~Closed(s)
        /\ Len(chan[s]) = Capacity
        /\ \E t \in tasks : t.to = s

\* Some subscriber of k has its receiver dropped.
ClosedWatcher(k) == \E s \in Subscribers(k) : Closed(s)

\* C13: with a subscriber of k closed, a set(k, v) puts v in the data map,
\* returns Ok and spawns a delivery for every subscription of k; a delivery to
\* an open channel ends only by putting its event in that channel, and the
\* delivery to the closed channel ends without changing anything else.
C13_ClosedWatcherIsolated ==
    [][/\ \A c \in Conns :
            (rpc[c] = "recv" /\ rpc'[c] = "invoke" /\ ClosedWatcher(rreg'[c].cmd.key))
            => data'[rreg'[c].cmd.key] = Some(Value_String(rreg'[c].cmd.value))
       /\ \A c \in Conns :
            (rpc[c] = "invoke" /\ rpc'[c] = "send" /\ ClosedWatcher(rreg[c].cmd.key))
            => /\ rreg'[c].msg.f = OkReply
               /\ \A idx \in 1..Len(subscriptions[rreg[c].cmd.key]) :
                     \E t \in tasks' \ tasks :
                        /\ t.to = subscriptions[rreg[c].cmd.key][idx].subscriber
                        /\ EventOf(t.msg, rreg[c].sid, idx)
                        /\ t.msg.key = rreg[c].cmd.key
                        /\ t.msg.value = rreg[c].cmd.value
       /\ \A t \in tasks \ tasks' :
            IF Closed(t.to)
            THEN /\ tasks' = tasks \ {t}
                 /\ UNCHANGED <<data, subscriptions, rpc, rreg, chan, wpc, wreg, sock>>
            ELSE chan'[t.to] = Append(chan[t.to], t.msg)]_vars

\* Two subscribers of a key, one closed and one open: a set of the key is in the
\* data map, its event has reached the open one, and the delivery to the
\* closed one is left to fail.
C13_Witness ==
    \E s \in Conns : \E o \in Conns \ {s} : \E t \in tasks :
        /\ Closed(s)
        /\ ~Closed(o)
        /\ {s, o} \subseteq Subscribers(t.msg.key)
        /\ t.to = s
        /\ \E m \in Sent(o) : EventOf(m, t.msg.sid, m.idx) /\ m.key = t.msg.key
        /\ data[t.msg.key] = Some(Value_String(t.msg.value))

\* C14 as stated: while a delivery task is executing its send, no thread holds
\* the guard of the subscription map.
C14_NoSendWhileLocked ==
    (\E t \in tasks : t.st = "sending") => locks.subscriptions = None

\* C14, amended: the thread holding the guard of the subscription map is inside
\* subscribe_for_changes or invoke_subscribers and can take its next step
\* whatever the channels hold: it spawns and never sends, the sends being made
\* by the spawned tasks, which take no lock.
C14_HolderNeverSends ==
    \A c \in Conns :
        locks.subscriptions = Some(c)
        => /\ th[c].pc = "subscriptions"
           /\ ENABLED (SubscribeReturns(c) \/ InvokeSpawns(c) \/ InvokeReturns(c))

\* invoke_subscribers is spawning under the guard while the delivery of an
\* earlier set is in its send.
C14_Witness ==
    \E c \in Conns : \E t \in tasks :
        /\ locks.subscriptions = Some(c)
        /\ th[c].cmd.c = "Set"
        /\ ToSpawn(c) # {}
        /\ t.st = "sending"
        /\ t.msg.sid < th[c].sid

\* C15: no thread holds the guards of the data map and of the subscription map
\* together, and no state is a deadlock: a thread inside a method can take a
\* step, or waits for a mutex whose holder can.
C15_LocksNeverNested ==
    /\ \A c \in Conns : ~(locks.inner = Some(c) /\ locks.subscriptions = Some(c))
    /\ \A c \in Conns :
          th[c].pc # "idle"
          => \/ ENABLED ThreadStep(c)
             \/ /\ th[c].pc = "lock_inner"
                /\ \E h \in Conns \ {c} : locks.inner = Some(h) /\ ENABLED ThreadStep(h)
             \/ /\ th[c].pc = "lock_subscriptions"
                /\ \E h \in Conns \ {c} : locks.subscriptions = Some(h) /\ ENABLED ThreadStep(h)

\* Both mutexes held at once, by two threads: one inside push and one inside the
\* invoke_subscribers of a set.
C15_Witness ==
    \E a \in Conns : \E b \in Conns \ {a} :
        /\ locks.inner = Some(a)
        /\ th[a].cmd.c = "Push"
        /\ locks.subscriptions = Some(b)
        /\ th[b].cmd.c = "Set"

\* C16 as stated, for the first read of a frame that arrives in two: recv does
\* not fail on it, so the reader's loop does not end before the rest arrives.
C16_SplitFrameIsAwaited ==
    \A c \in Conns : \A got \in Received : got.read \in SplitReads => ~ENABLED ReaderStop(c, got)

\* C17: a push(L, xs) on a key that holds a String replies
\* Error("key `L` exists and it is not a list") and leaves the data map and the
\* subscription map as they were, so that a get of L still returns the String.
C17_PushOnString ==
    [][\A c \in Conns :
          (/\ Acted(c, "Push")
           /\ data[rreg'[c].cmd.list_name].some
           /\ data[rreg'[c].cmd.list_name].v.ty = "String")
          => /\ rreg'[c].msg.f = Error(<<"key ", Backtick>> \o rreg'[c].cmd.list_name
                                       \o <<Backtick, " exists and it is not a list">>)
             /\ data' = data
             /\ subscriptions' = subscriptions
             /\ get(data', rreg'[c].cmd.list_name)
                  = SimpleString(data[rreg'[c].cmd.list_name].v.s)]_vars

\* A push on a key of which a subscription exists and that a set gave a
\* String: the Error is the reply and the String is still there.
C17_Witness ==
    \E c \in Conns :
        /\ rpc[c] = "send"
        /\ rreg[c].cmd = Push(<<"k">>, <<<<"v">>>>)
        /\ rreg[c].msg.f.t = "Error"
        /\ data[<<"k">>] = Some(Value_String(<<"w">>))
        /\ subscriptions[<<"k">>] # <<>>

\* C18 as stated: Command::new over a frame whose name is a letter-case variant
\* of GET, SET, PUSH or WATCH returns the Command of the uppercase name.
C18_NameCaseInsensitive ==
    rc.phase = "cased" => rc.back = Ok(rc.c)

\* C19 as stated: Command::new over a frame that lacks a required field returns
\* MissingField of the first field missing (key, value, list name, operation),
\* and a PUSH frame with a list name decodes to the Push of the values it has,
\* none included.
C19_MissingFieldNamed ==
    rc.phase = "short"
    => rc.back =
         CASE rc.c.c = "Get"   -> Err(MissingField("key"))
           [] rc.c.c = "Set"   -> Err(MissingField(IF Len(rc.frame.v) = 1 THEN "key"
                                                   ELSE "value"))
           [] rc.c.c = "Watch" -> Err(MissingField(IF Len(rc.frame.v) = 1 THEN "key"
                                                   ELSE "operation"))
           [] rc.c.c = "Push"  -> IF Len(rc.frame.v) = 1 THEN Err(MissingField("list name"))
                                  ELSE Ok(Push(rc.c.list_name,
                                               SubSeq(rc.c.values, 1, Len(rc.frame.v) - 2)))

\* C20: Set::from returns InvalidFrame(Empty, "key") on a consumer with no
\* element left for the key and InvalidFrame(Empty, "value") on one with a key
\* and no element left for the value; neither gives a Set.
C20_SetFromEmpty ==
    (rc.phase = "short" /\ rc.c.c = "Set")
    => /\ rc.back = Err(InvalidFrame(Empty, IF Len(rc.frame.v) = 1 THEN "key" ELSE "value"))
       /\ Set_from(TypeConsumer_new(Array(Tail(rc.frame.v)))) = rc.back

\* A SET frame with its key and no value has been decoded.
C20_Witness ==
    /\ rc.phase = "short"
    /\ rc.c.c = "Set"
    /\ Len(rc.frame.v) = 2
    /\ rc.back = Err(InvalidFrame(Empty, "value"))

\* C21 as stated: a WATCH frame with the integer n decodes to Addition for 1,
\* Update for 2, Removal for 3 and All for every other n, 0, negative n and n
\* above 255 included.
C21_OperationOfCode ==
    rc.phase = "code"
    => rc.back = Ok(Watch(rc.c.key, CASE rc.n = 1 -> "Addition"
                                      [] rc.n = 2 -> "Update"
                                      [] rc.n = 3 -> "Removal"
                                      [] OTHER    -> "All"))

\* C22: the operation of a subscription has no effect on delivery.  Each turn of
\* invoke_subscribers spawns the delivery of the set's event, an Addition or an
\* Update, to the next subscription of the key whatever its operation;
\* invoke_subscribers returns only after the last subscription; and a delivery
\* in its send to an open channel ends only by putting the event there.
C22_FilterIgnored ==
    [][/\ \A c \in Conns :
            (th[c].pc = "subscriptions" /\ th[c].cmd.c = "Set" /\ th'[c] # th[c])
            => IF th'[c].pc = "idle"
               THEN th[c].i = Len(subscriptions[th[c].cmd.key])
               ELSE /\ th'[c].i = th[c].i + 1
                    /\ \E t \in tasks' \ tasks :
                          /\ t.to = subscriptions[th[c].cmd.key][th'[c].i].subscriber
                          /\ t.msg.idx = th'[c].i
                          /\ t.msg.sid = th[c].sid
                          /\ t.msg.f.v[1] = SimpleString(th[c].cmd.key)
                          /\ t.msg.f.v[2] = Integer(IF th[c].before.some THEN 2 ELSE 1)
       /\ \A t \in tasks \ tasks' :
            (t.st = "sending" /\ ~Closed(t.to)) => chan'[t.to] = Append(chan[t.to], t.msg)]_vars

\* A subscription for Removal has been sent the Addition event of the first
\* set of its key and the Update event of the second.
C22_Witness ==
    \E c \in Conns :
        /\ subscriptions[<<"k">>] # <<>>
        /\ subscriptions[<<"k">>][1].operation = "Removal"
        /\ subscriptions[<<"k">>][1].subscriber = c
        /\ \E m \in Sent(c) : m.idx = 1 /\ m.f.t = "Array" /\ m.f.v[2] = Integer(1)
        /\ \E m \in Sent(c) : m.idx = 1 /\ m.f.t = "Array" /\ m.f.v[2] = Integer(2)

\* The places of a channel that hold events.
Events(q) == {i \in 1..Len(q) : q[i].sid > 0}

\* C23 as stated, for a delivery that is owed: the events delivered being as
\* many as the sets times the subscriptions, no delivery ends without its event
\* in the subscriber's channel.
C23_EveryEventDelivered ==
    \A t \in tasks : ~ENABLED TaskFails(t)

\* C23, amended: a push leaves the channels, the deliveries and the
\* subscriptions as they were; a delivery is spawned only by a turn of the
\* invoke_subscribers of a set, one per subscription of the set's key; and an
\* event enters a channel only as the one event of a delivery that ends.
C23_EventsOnlyFromSets ==
    [][/\ \A c \in Conns :
            (th[c].pc # "idle" /\ th[c].cmd.c = "Push" /\ th'[c] # th[c])
            => /\ chan' = chan
               /\ tasks' = tasks
               /\ subscriptions' = subscriptions
       /\ (\E t \in tasks' \ tasks : t.st = "spawned")
            => \E c \in Conns :
                  /\ th[c].pc = "subscriptions"
                  /\ th[c].cmd.c = "Set"
                  /\ th'[c].i = th[c].i + 1
                  /\ th'[c].i <= Len(subscriptions[th[c].cmd.key])
                  /\ Cardinality(tasks' \ tasks) = 1
       /\ \A c \in Conns :
            (th[c].pc = "subscriptions" /\ th[c].cmd.c = "Set" /\ th'[c].pc = "idle")
            => th[c].i = Len(subscriptions[th[c].cmd.key])
       /\ \A c \in Conns :
            Cardinality(Events(chan'[c])) > Cardinality(Events(chan[c]))
            => \E t \in tasks \ tasks' :
                  /\ t.to = c
                  /\ t.st = "sending"
                  /\ tasks' = tasks \ {t}
                  /\ chan'[c] = Append(chan[c], t.msg)]_vars

\* A push made a list of a watched key, and the one set of the key gave the
\* one subscription one event, that of an Update of the list.
C23_Witness ==
    \E c \in Conns :
        /\ Len(subscriptions[<<"k">>]) = 1
        /\ subscriptions[<<"k">>][1].subscriber = c
        /\ nset = 1
        /\ tasks = {}
        /\ Len(chan[c]) = 1
        /\ chan[c][1].f.v[2] = Integer(2)
        /\ chan[c][1].f.v[3] = Array(<<SimpleString(<<"v">>)>>)
        /\ \A d \in Conns : th[d].pc = "idle" /\ (d # c => chan[d] = <<>>)

\* C24: over a scalar Type the first call returns the conversion of the value,
\* failed or not, and leaves the consumer empty, and every later call returns
\* Empty; over an Array of n elements the i-th call returns the conversion of
\* the i-th element for i <= n, leaving the elements after it, and every call
\* after the n-th returns Empty.
C24_SingleConsumption ==
    tc.n >= 1
    => IF tc.t.t = "Array"
       THEN /\ tc.r = (IF tc.n <= Len(tc.t.v) THEN extractor(tc.to, tc.t.v[tc.n])
                       ELSE Err(Empty))
            /\ tc.inner = Some(Array(SubSeq(tc.t.v, tc.n + 1, Len(tc.t.v))))
       ELSE /\ tc.r = (IF tc.n = 1 THEN extractor(tc.to, tc.t) ELSE Err(Empty))
            /\ tc.inner = None

\* The third call over an Array of two elements, the second of which failed
\* to convert.
C24_Witness ==
    /\ tc.n = MaxTokens
    /\ tc.t = Array(<<SimpleString(<<"7">>), Null>>)
    /\ tc.inner = Some(Array(<<>>))
    /\ tc.r = Err(Empty)

\* The value a call of the consumer converted, if it converted one.
Converted ==
    IF tc.n = 0 THEN None
    ELSE IF tc.t.t = "Array"
    THEN (IF tc.n <= Len(tc.t.v) THEN Some(tc.t.v[tc.n]) ELSE None)
    ELSE (IF tc.n = 1 THEN Some(tc.t) ELSE None)

\* A text that is a decimal number: an optional sign and then digits only.
IsDecimal(text) ==
    LET first == IF text # <<>> /\ text[1] \in {"+", "-"} THEN 2 ELSE 1
    IN  /\ first <= Len(text)
        /\ \A i \in first..Len(text) : IsDigit(text[i])

\* C25: a SimpleString converts to String and to Bytes, and to Integer exactly
\* when it is decimal; a BulkString converts to Bytes, to String exactly when
\* it is UTF-8 and to Integer exactly when it is decimal; an Integer converts
\* to String and to Integer and fails for Bytes; Null fails for all three;
\* every failure is ConversionFailed with the value and the requested target.
C25_ConversionTable ==
    (Converted.some /\ Converted.v.t \in {"SimpleString", "BulkString", "Integer", "Null"})
    => LET value == Converted.v
           converts ==
               CASE value.t = "SimpleString" -> tc.to = "Integer" => IsDecimal(value.v)
                 [] value.t = "BulkString"   ->
                      /\ tc.to = "Integer" => IsDecimal(value.v)
                      /\ tc.to = "String" => \A i \in 1..Len(value.v) : value.v[i] # NotUtf8
                 [] value.t = "Integer"      -> tc.to # "Bytes"
                 [] value.t = "Null"         -> FALSE
       IN  /\ tc.r.ok <=> converts
           /\ ~tc.r.ok => tc.r.e = ConversionFailed(value, tc.to)
           /\ (tc.r.ok /\ value.t = "Integer" /\ tc.to = "Integer") => tc.r.v = value.v
           /\ (tc.r.ok /\ value.t # "Integer" /\ tc.to # "Integer") => tc.r.v = value.v

\* The position after the payload of the bulk frame at the start of the
\* buffer, when the buffer holds a `$n` header, n in digits, and n payload bytes.
PayloadEnd ==
    IF feed.buf = <<>> \/ feed.buf[1] # "$" THEN None
    ELSE LET number == get_line(feed.buf, 1)
         IN  IF ~number.r.ok \/ number.r.v = <<>> THEN None
             ELSE IF \E i \in 1..Len(number.r.v) : ~IsDigit(number.r.v[i]) THEN None
             ELSE IF number.pos + atoi(number.r.v).v > Len(feed.buf) THEN None
             ELSE Some(number.pos + atoi(number.r.v).v)

\* C26: a buffer holding a `$n` header and n payload bytes parses to the
\* BulkString of the payload only when CRLF follows the payload, to Incomplete
\* when fewer than two bytes follow it, and to an error when two bytes follow
\* that are not CRLF.
C26_BulkNeedsCrlf ==
    PayloadEnd.some
    => LET end == PayloadEnd.v
       IN  IF Len(feed.buf) < end + 2 THEN feed.res = Err(Incomplete)
           ELSE IF feed.buf[end + 1] = CR /\ feed.buf[end + 2] = LF
           THEN feed.res.ok /\ feed.res.v.t = "BulkString"
           ELSE ~feed.res.ok

\* The results of the sub-frames of an Array of m, in order, up to the first
\* that is an error.
RECURSIVE SubFrames(_, _, _)
SubFrames(bytes, pos, m) ==
    IF m <= 0 THEN <<>>
    ELSE LET sub == parse_next(bytes, pos)
         IN  IF sub.r.ok THEN <<sub.r>> \o SubFrames(bytes, sub.pos, m - 1) ELSE <<sub.r>>

\* The sub-frame results of the bytes that were parsed, when they start with
\* the header of an Array.
ArrayParsed ==
    IF rt.phase \notin {"parsed", "truncated", "corrupted"} THEN None
    ELSE IF rt.bytes = <<>> \/ rt.bytes[1] # "*" THEN None
    ELSE LET number == get_line(rt.bytes, 1)
         IN  IF ~number.r.ok \/ ~atoi(number.r.v).some THEN None
             ELSE Some([m    |-> atoi(number.r.v).v,
                        subs |-> SubFrames(rt.bytes, number.pos, atoi(number.r.v).v)])

\* C27: the parse of an Array of m sub-frames returns Incomplete when a
\* sub-frame returns Incomplete or EndOfBytes, returns any other error of a
\* sub-frame unchanged, and returns the Array of the m sub-frames only when all
\* of them parsed.
C27_SubFrameErrors ==
    ArrayParsed.some
    => LET m    == ArrayParsed.v.m
           subs == ArrayParsed.v.subs
       IN  IF subs # <<>> /\ ~subs[Len(subs)].ok
           THEN rt.back = Err(IF subs[Len(subs)].e \in {Incomplete, EndOfBytes}
                              THEN Incomplete ELSE subs[Len(subs)].e)
           ELSE /\ Len(subs) = (IF m < 0 THEN 0 ELSE m)
                /\ rt.back = Ok(Array([i \in 1..Len(subs) |-> subs[i].v]))

\* An Array of two whose bytes end after the first sub-frame: the second
\* returns EndOfBytes and the whole parse Incomplete.
C27_Witness ==
    /\ rt.phase = "truncated"
    /\ ArrayParsed.some
    /\ ArrayParsed.v.m = 2
    /\ Len(ArrayParsed.v.subs) = 2
    /\ ArrayParsed.v.subs[2] = Err(EndOfBytes)
    /\ rt.back = Err(Incomplete)

\* The length a `$` header at the start of the parsed bytes declares, when
\* the header's line is complete and is a number.
BulkLength ==
    IF rt.bytes = <<>> \/ rt.bytes[1] # "$" THEN None
    ELSE LET number == get_line(rt.bytes, 1)
         IN  IF ~number.r.ok \/ ~atoi(number.r.v).some THEN None
             ELSE Some([n |-> atoi(number.r.v).v, held |-> Len(rt.bytes) - number.pos])

\* C28: parse_next returns EndOfBytes for no bytes, InvalidMarker of the first
\* byte when it is none of + - : $ *, Null for a bulk length of -1,
\* InvalidByteLength(n) for a bulk length n below -1, and Incomplete for a bulk
\* payload shorter than the declared length.
C28_MalformedInput ==
    rt.phase \in {"parsed", "truncated", "corrupted"}
    => /\ rt.bytes = <<>> => rt.back = Err(EndOfBytes)
       /\ (rt.bytes # <<>> /\ rt.bytes[1] \notin {"+", "-", ":", "$", "*"})
            => rt.back = Err(InvalidMarker(rt.bytes[1]))
       /\ (BulkLength.some /\ BulkLength.v.n = -1) => rt.back = Ok(Null)
       /\ (BulkLength.some /\ BulkLength.v.n < -1)
            => rt.back = Err(InvalidByteLength(BulkLength.v.n))
       /\ (BulkLength.some /\ BulkLength.v.n >= 0 /\ BulkLength.v.held < BulkLength.v.n)
            => rt.back = Err(Incomplete)

\* The bytes of Null with the length -1 replaced by -2.
C28_Witness ==
    /\ rt.phase = "corrupted"
    /\ rt.t = Null
    /\ rt.bytes = <<"$", "-", "2", CR, LF>>
    /\ rt.back = Err(InvalidByteLength(-2))

\* decimal(i) of the wire grammar: the text of digits, with '-' first for a
\* negative number and no leading zero, that reads back as i.
DecimalTexts ==
    {d \in SeqsUpTo({Digits[k] : k \in 1..10} \cup {"-"}, 3) :
        /\ IsDecimal(d)
        /\ d[1] = "0" => Len(d) = 1
        /\ d[1] = "-" => d[2] # "0"}

Decimal(i) == CHOOSE d \in DecimalTexts : atoi(d) = Some(i)

RECURSIVE Concat(_)
Concat(parts) == IF parts = <<>> THEN <<>> ELSE Head(parts) \o Concat(Tail(parts))

\* The wire grammar of RESP, Type by Type.
RECURSIVE Wire(_)
Wire(t) ==
    CASE t.t = "SimpleString" -> <<"+">> \o t.v \o <<CR, LF>>
      [] t.t = "Error"        -> <<"-">> \o t.v \o <<CR, LF>>
      [] t.t = "Integer"      -> <<":">> \o Decimal(t.v) \o <<CR, LF>>
      [] t.t = "Null"         -> <<"$", "-", "1", CR, LF>>
      [] t.t = "BulkString"   -> <<"$">> \o Decimal(Len(t.v)) \o <<CR, LF>> \o t.v \o <<CR, LF>>
      [] t.t = "Array"        ->
             <<"*">> \o Decimal(Len(t.v)) \o <<CR, LF>>
                 \o Concat([i \in 1..Len(t.v) |-> Wire(t.v[i])])

\* C29: into_bytes returns bytes for every Type, and the bytes are those of
\* the wire grammar: '+' s CRLF, '-' s CRLF, ':' decimal CRLF, "$-1" CRLF,
\* '$' length CRLF payload CRLF, and '*' length CRLF then the elements in
\* order.
C29_WireGrammar ==
    /\ rt.phase = "type" => ENABLED Serialize
    /\ rt.phase = "bytes" => rt.bytes = Wire(rt.t)

\* An Array of a BulkString and Null, serialized.
C29_Witness ==
    /\ rt.phase = "bytes"
    /\ rt.t = Array(<<BulkString(<<"a">>), Null>>)
    /\ rt.bytes = <<"*", "2", CR, LF, "$", "1", CR, LF, "a", CR, LF, "$", "-", "1", CR, LF>>

\* The name of the i-th element of a command's frame, for the fields the
\* decoders name, and the type the decoder converts it to.
FieldName(c, i) ==
    CASE c.c = "Get"   /\ i = 2 -> "key"
      [] c.c = "Set"   /\ i = 2 -> "key"
      [] c.c = "Set"   /\ i = 3 -> "value"
      [] c.c = "Push"  /\ i = 2 -> "list name"
      [] c.c = "Watch" /\ i = 2 -> "key"
      [] c.c = "Watch" /\ i = 3 -> "operation"
      [] OTHER                  -> "none"

FieldType(c, i) == IF c.c = "Watch" /\ i = 3 THEN "Integer" ELSE "String"

\* C30: Command::new returns UnSupportedCommand for a frame whose name is no
\* command's, and InvalidFrame of the conversion's error and the field's name
\* for a frame whose field does not convert to the type the command needs.
C30_DecodeErrors ==
    rc.phase = "replaced"
    => /\ rc.n = 1 => rc.back = Err(UnSupportedCommand)
       /\ (rc.n > 1 /\ FieldName(rc.c, rc.n) # "none")
            => rc.back = Err(InvalidFrame(ConversionFailed(Null, FieldType(rc.c, rc.n)),
                                          FieldName(rc.c, rc.n)))

\* The events of the i-th subscription of k that were spawned and are not
\* lost: in a delivery, in the channel, with the writer, or written.
Fired(c, i) == {m \in Sent(c) \cup {t.msg : t \in {u \in tasks : u.to = c}} : m.sid > 0 /\ m.idx = i}

\* Nothing is on its way to connection c any more.
Quiet(c) ==
    /\ \A d \in Conns : th[d].pc = "idle"
    /\ tasks = {}
    /\ chan[c] = <<>>
    /\ wpc[c] = "recv"

\* C31: with a subscription of k registered before two sets of k, the only
\* calls made, each set
\* fires one event for it; the event of the set that took the data lock first
\* has the value stored before both as its before, and the event of the other
\* has the after of the first as its before; and once both sets have returned
\* and nothing is on its way, a subscriber whose writer is alive has received
\* exactly these two events.
C31_TwoSetsOneOrder ==
    \A c \in Conns : \A i \in 1..Len(subscriptions[<<"k">>]) :
        (subscriptions[<<"k">>][i].subscriber = c /\ subscriptions[<<"k">>][i].at = 0
           /\ nset = 2 /\ MaxCalls - left = 3)
        => /\ \A m \in Fired(c, i) :
                /\ m.sid \in {1, 2}
                /\ m.sid = 1 => m.f.v[3] = Null
                /\ \A n \in Fired(c, i) :
                     /\ (m.sid = 1 /\ n.sid = 2) => n.f.v[3] = m.f.v[4]
                     /\ n.sid = m.sid => n = m
           /\ Quiet(c)
                => /\ Len(sock[c]) = 2
                   /\ {sock[c][j].sid : j \in 1..2} = {1, 2}
                   /\ \A j \in 1..2 : sock[c][j].idx = i

\* Two sets of k from the two connections overlap: the one that took the data
\* lock second is the first to spawn its event, whose before is the value of
\* the other, which has yet to invoke the subscribers.
C31_Witness ==
    \E c \in Conns : \E d \in Conns \ {c} :
        /\ Len(subscriptions[<<"k">>]) = 1
        /\ subscriptions[<<"k">>][1].at = 0
        /\ th[c].pc = "lock_subscriptions" /\ th[c].cmd = Set(<<"k">>, <<"v">>) /\ th[c].sid = 1
        /\ th[d].pc = "subscriptions" /\ th[d].cmd = Set(<<"k">>, <<"w">>) /\ th[d].sid = 2
        /\ \E t \in tasks :
              /\ t.msg.sid = 2
              /\ t.msg.f.v[3] = SimpleString(<<"v">>)
              /\ t.msg.f.v[4] = SimpleString(<<"w">>)

\* C32: the delivery of an event does not wait for the delivery of an earlier
\* event to the same subscriber: while the event of an earlier set of the key
\* is still to be delivered, the event of a later set can enter the
\* subscriber's channel.
C32_LaterEventNotHeld ==
    \A t \in tasks : \A u \in tasks :
        (u.to = t.to /\ u.msg.sid < t.msg.sid /\ ~Closed(t.to) /\ Len(chan[t.to]) < Capacity)
        => ENABLED Deliver(t)

\* One connection has sent SET k v and then SET k w, its only frames, and the
\* other, whose only frame was its WATCH, has been written the event with
\* after = w before the event with after = v.
C32_Witness ==
    \E c \in Conns : \E d \in Conns \ {c} :
        /\ arrived[c] = 2
        /\ arrived[d] = 1
        /\ Len(sock[d]) = 3
        /\ sock[d][1].re = 1
        /\ sock[d][2].sid = 2 /\ sock[d][2].f.v[4] = SimpleString(<<"w">>)
        /\ sock[d][3].sid = 1 /\ sock[d][3].f.v[4] = SimpleString(<<"v">>)
        /\ sock[d][3].f.v[3] = Null
        /\ sock[d][2].f.v[3] = SimpleString(<<"v">>)

\* C33: RedisClient::watch forwards every event the server pushes to the watcher
\* channel, in the order received, and it returns only because the peer closed
\* the connection or an I/O error occurred: the server's Ok reply to the WATCH
\* neither ends the loop nor comes back as an error.
C33_WatchModeStays ==
    cl.pc \in {"recv", "returned"} =>
        LET IsEvent(f) == f \in ClientEvents
            events     == SelectSeq(cl.got, IsEvent)
        IN  /\ Len(cl.watcher) = Len(events)
            /\ \A i \in 1..Len(events) : WatchResult_into(cl.watcher[i]) = events[i]
            /\ cl.pc = "returned" => cl.why \in {"closed", "io"}

\* C34, as stated: the channel of a connection never holds more than Capacity
\* frames, and while it is full the reader of the connection executes no
\* further command.
C34_FullStopsReader ==
    /\ [](\A c \in Conns : Len(chan[c]) <= Capacity)
    /\ [][\A c \in Conns : Len(chan[c]) = Capacity => arrived'[c] = arrived[c]]_vars

\* C34, amended: the channel of a connection never holds more than Capacity
\* frames, and a reader whose send finds the channel full is suspended in it:
\* its position, its locals and the number of commands it executed stay as they
\* are in every step taken while the channel is full and the writer alive.  The
\* reader executes at most the one command whose reply it then waits to send.
C34_FullSuspendsSend ==
    /\ [](\A c \in Conns : Len(chan[c]) <= Capacity)
    /\ [][\A c \in Conns :
            (rpc[c] = "send" /\ Len(chan[c]) = Capacity /\ ~Closed(c))
            => (rpc'[c] = "send" /\ rreg'[c] = rreg[c] /\ arrived'[c] = arrived[c])]_vars
    /\ [][\A c \in Conns :
            (Len(chan[c]) = Capacity /\ arrived'[c] # arrived[c])
            => rpc'[c] \in {"send", "invoke"}]_vars

\* The reader of c executed a third command while its channel, full with the
\* replies to the first two, was not read: it is suspended in its send.
C34_Witness ==
    \E c \in Conns :
        /\ Len(chan[c]) = Capacity
        /\ \A i \in 1..Capacity : chan[c][i].re = i
        /\ rpc[c] = "send"
        /\ rreg[c].msg.re = Capacity + 1
        /\ ~Closed(c)
        /\ ~ENABLED ReaderSend(c)

\* C35: the frame ReadHalf::recv returns is the frame of the bytes the read
\* returned, the rest of the buffer having no part in it: parsing those bytes
\* alone gives the same frame, and a read that ends inside the payload of a bulk
\* string returns no BulkString.
C35_OnlyReadBytes ==
    \A c \in Conns : rpc[c] = "recv" =>
        \A read \in SocketReads :
            (recv(read).ok /\ recv(read).v.some) =>
                /\ parse(read).ok
                /\ parse(read).v = recv(read).v.v
                /\ (read \in TruncatedBulks => recv(read).v.v.t # "BulkString")

\* C36: no request frame is dropped.  Every step in which the reader of a
\* connection receives takes as many frames to execution as the read used up of
\* the frames the clients wrote, also when the read holds two of them; and each
\* frame taken to execution has at most one reply among the frames sent.
C36_NoFrameDropped ==
    /\ [][\A c \in Conns :
            arrived'[c] # arrived[c] => arrived'[c] - arrived[c] = left - left']_vars
    /\ [](\A c \in Conns : \A m \in Sent(c) : \A n \in Sent(c) :
            (m.re > 0 /\ m.re = n.re) => (m = n /\ m.re <= arrived[c]))

\* C37: a subscription receives events only of the sets that took effect in the
\* data map after it was registered: no event spawned for or delivered to a
\* subscription is of a set whose map update came before the registration.
C37_OnlyLaterSets ==
    \A c \in Conns : \A m \in Sent(c) \cup {t.msg : t \in {u \in tasks : u.to = c}} :
        m.sid > 0 => m.sid > subscriptions[m.f.v[1].v][m.idx].at

\* The places of the events of key k among the frames written to connection c.
EventsAt(c, k) == {i \in 1..Len(sock[c]) : sock[c][i].sid > 0 /\ sock[c][i].f.v[1].v = k}

\* C38: once every call has returned and every delivery has been received, the
\* last event of k a subscriber received has the value stored at k as its after.
C38_ViewConverges ==
    \A c \in Conns : \A k \in DOMAIN data :
        (Quiet(c) /\ EventsAt(c, k) # {})
        => LET last == CHOOSE i \in EventsAt(c, k) : \A j \in EventsAt(c, k) : j <= i
           IN  /\ data[k].some
               /\ sock[c][last].f.v[4] = Value_into(data[k].v)

\* The values of a push as get returns them.
Pushed(xs) == [i \in 1..Len(xs) |-> SimpleString(xs[i])]

\* C39: every successful push(L, xs) leaves get(L) returning the Array it
\* returned before followed by xs in their order, the empty Array standing for
\* an absent key, so that get(L) is the concatenation of the pushed lists in
\* data-lock order; a push of no values on an absent key creates the empty list
\* and returns Integer(0).
C39_PushOrder ==
    [][\A c \in Conns :
          (/\ th[c].pc = "inner"
           /\ th[c].cmd.c = "Push"
           /\ th'[c].pc = "idle"
           /\ push(data, th[c].cmd.list_name, th[c].cmd.values).reply.t # "Error")
          => LET L      == th[c].cmd.list_name
                 xs     == th[c].cmd.values
                 before == IF data[L].some THEN get(data, L).v ELSE <<>>
             IN  /\ get(data', L) = Array(before \o Pushed(xs))
                 /\ (~data[L].some /\ xs = <<>>)
                    => /\ data'[L] = Some(Value_List(<<>>))
                       /\ push(data, L, xs).reply = Integer(0)]_vars

\* Every call was a push to the list l, two of them of v, w: get returns
\* v, w, v, w.
C39_Witness ==
    /\ \A c \in Conns : th[c].pc = "idle"
    /\ left = 0
    /\ get(data, <<"l">>) = Array(Pushed(<<<<"v">>, <<"w">>, <<"v">>, <<"w">>>>))
    /\ data[<<"k">>] = None

\* The step is one of thread c inside the method of Database named name, its
\* call and its return included.
StepOf(c, name) ==
    /\ th'[c] # th[c]
    /\ \/ th[c].pc # "idle" /\ th[c].cmd.c = name
       \/ th[c].pc = "idle" /\ th'[c].pc # "idle" /\ th'[c].cmd.c = name

\* C40: no step of get changes the data map or the subscription map or spawns
\* or delivers an event; no step of watch changes the data map or spawns or
\* delivers an event, and the one step of watch that changes the subscription
\* map appends one subscription, of the watch's operation and sender, at the
\* end of the list of the watch's key and leaves every subscription that
\* existed where it was.
C40_GetAndWatchFrame ==
    [][\A c \in Conns :
          /\ StepOf(c, "Get")
             => /\ data' = data
                /\ subscriptions' = subscriptions
                /\ tasks' = tasks
                /\ chan' = chan
          /\ StepOf(c, "Watch")
             => /\ data' = data
                /\ tasks' = tasks
                /\ chan' = chan
                /\ IF th[c].pc = "subscriptions"
                   THEN LET k == th[c].cmd.key
                            n == Len(subscriptions[k])
                        IN  /\ Len(subscriptions'[k]) = n + 1
                            /\ SubSeq(subscriptions'[k], 1, n) = subscriptions[k]
                            /\ subscriptions'[k][n + 1].operation = th[c].cmd.operation
                            /\ subscriptions'[k][n + 1].subscriber = c
                            /\ \A j \in DOMAIN subscriptions \ {k} :
                                  subscriptions'[j] = subscriptions[j]
                   ELSE subscriptions' = subscriptions]_vars

\* A get of the absent key k and two watches of k were the calls: nothing is
\* stored, nothing was spawned, and the two subscriptions are in the order of
\* their registration.
C40_Witness ==
    /\ \A c \in Conns : th[c].pc = "idle"
    /\ left = 0
    /\ \A k \in DOMAIN data : data[k] = None
    /\ tasks = {}
    /\ Len(subscriptions[<<"k">>]) = 2
    /\ subscriptions[<<"k">>][1].operation = "Addition"
    /\ subscriptions[<<"k">>][2].operation = "Removal"

====
